---- MODULE Spec2Model ----
(***************************************************************************)
(* Model of the railway-mesh diagram editor (src/main.go, the v8.4 variant *)
(* that starts at line 1045; the v7.3 variant at lines 1-1044 has the same *)
(* Update logic without the vertical camera offset).                       *)
(*                                                                         *)
(* One step of the model is one call the host frame loop makes: Update     *)
(* (one logical tick, the whole handler) or Layout (a window resize).      *)
(*                                                                         *)
(* Numbers.  Cursor positions are ints, the camera moves in steps of 5.0   *)
(* and the gauge in steps of 1.0, so every coordinate and thickness the    *)
(* program holds is an integer-valued float64 and is modelled by an        *)
(* integer.  NaN (startX, startY after a release) is a separate value.     *)
(* Distances are compared exactly, as squared rationals, where the Go code *)
(* compares the float64 square roots.  LengthMeters is kept truncated to   *)
(* whole meters.                                                           *)
(***************************************************************************)
EXTENDS Integers, Sequences, FiniteSets, TLC

\* ---------------------------------------------------------------- constants
pixelsPerMeterInv == 100
cameraScrollSpeed == 5
popupWidth == 100
popupOptionHeight == 20
popupPadding == 5
popupColorSquareSize == 16
hitThreshold == 8
thicknessMax == 50
thicknessMin == 1
initialThickness == 5
defaultWidth == 1024
defaultHeight == 768

\* ------------------------------------------------------------------- bounds
\* at most MaxTracks tracks are ever in the list (a commit beyond is not offered)
MaxTracks == 2
\* the camera is panned at most MaxPan scroll steps away from the origin
MaxPan == 1
\* the gauge is raised at most MaxGauge steps above its initial value
MaxGauge == 1

\* ------------------------------------------------------------------ palette
Red == <<255, 0, 0, 255>>
Blue == <<0, 0, 255, 255>>
Yellow == <<255, 255, 0, 255>>
Green == <<0, 255, 0, 255>>

colorKeys == <<"1", "2", "3", "4">>

colorPalette == [k \in {"1", "2", "3", "4"} |->
                   CASE k = "1" -> Red [] k = "2" -> Blue
                     [] k = "3" -> Yellow [] k = "4" -> Green]

\* ------------------------------------------------------------------- floats
\* a float64 that is either NaN or an integer value
NaN == [nan |-> TRUE, v |-> 0]
Num(v) == [nan |-> FALSE, v |-> v]
IsNaN(f) == f.nan

\* ------------------------------------------------------------------ helpers
Sq(a) == a * a

RECURSIVE SqrtSearch(_, _, _)
SqrtSearch(n, lo, hi) ==
    IF lo >= hi THEN lo
    ELSE LET mid == (lo + hi + 1) \div 2
         IN  IF mid * mid <= n THEN SqrtSearch(n, mid, hi)
             ELSE SqrtSearch(n, lo, mid - 1)

\* floor of the square root
ISqrt(n) == SqrtSearch(n, 0, 46340)

RemoveAt(s, i) == [k \in 1..(Len(s) - 1) |-> IF k < i THEN s[k] ELSE s[k + 1]]

\* image.Rectangle and image.Point
Rect(x0, y0, x1, y1) == [MinX |-> x0, MinY |-> y0, MaxX |-> x1, MaxY |-> y1]
RectAdd(r, dx, dy) == Rect(r.MinX + dx, r.MinY + dy, r.MaxX + dx, r.MaxY + dy)
PtIn(x, y, r) == r.MinX <= x /\ x < r.MaxX /\ r.MinY <= y /\ y < r.MaxY

\* a squared distance n/d (d > 0), compared without overflowing
Frac(n, d) == [n |-> n, d |-> d]
FracLess(a, b) ==
    LET qa == a.n \div a.d
        qb == b.n \div b.d
    IN  \/ qa < qb
        \/ qa = qb /\ (a.n % a.d) * b.d < (b.n % b.d) * a.d

\* ------------------------------------------------------- coordinate helpers
\* screenToWorld: the world point under a screen point
screenToWorld(g, screenX, screenY) ==
    <<screenX + g.cameraOffsetX, screenY + g.cameraOffsetY>>

\* float32 holds every integer up to 2^24 in magnitude
float32Exact == 16777216

\* the spacing of the float32 values around the magnitude a
RECURSIVE Float32Spacing(_, _)
Float32Spacing(a, q) ==
    IF a \div q < float32Exact THEN q ELSE Float32Spacing(a, 2 * q)

\* float32(x) of an integer-valued float64: the nearest float32, ties to the
\* even mantissa
Float32(x) ==
    LET a == IF x < 0 THEN 0 - x ELSE x
        q == Float32Spacing(a, 1)
        m == a \div q
        r == a - m * q
        up == 2 * r > q \/ (2 * r = q /\ m % 2 = 1)
        n == IF up THEN (m + 1) * q ELSE m * q
    IN  IF x < 0 THEN 0 - n ELSE n

\* worldToScreen adding the camera offset
worldToScreen_addsOffset(g, worldX, worldY) ==
    <<Float32(worldX + g.cameraOffsetX), Float32(worldY + g.cameraOffsetY)>>

\* worldToScreen: the screen point of a world point
worldToScreen(g, worldX, worldY) ==
    <<Float32(worldX - g.cameraOffsetX), Float32(worldY - g.cameraOffsetY)>>

\* calculateLengthMeters returning the pixel length as it is
calculateLengthMeters_pixels(x1, y1, x2, y2) ==
    LET dx == x2 - x1
        dy == y2 - y1
    IN  ISqrt(dx * dx + dy * dy)

\* calculateLengthMeters: pixel length / pixelsPerMeter, truncated to meters
\* (a whole pixel length is divided as it is, any other under the root)
calculateLengthMeters(x1, y1, x2, y2) ==
    LET dx == x2 - x1
        dy == y2 - y1
        lengthSq == dx * dx + dy * dy
        pixelLength == ISqrt(lengthSq)
    IN  IF pixelLength * pixelLength = lengthSq
        THEN pixelLength * pixelsPerMeterInv
        ELSE ISqrt(lengthSq * pixelsPerMeterInv * pixelsPerMeterInv)

\* ------------------------------------------------------------- hit testing
\* pointSegmentDistance, squared: the projection parameter t = dot / lengthSq
\* is clamped to [0, 1]; a zero-length segment degenerates to the point A.
pointSegmentDistance(px, py, ax, ay, bx, by) ==
    LET dx == bx - ax
        dy == by - ay
        lengthSq == dx * dx + dy * dy
        dot == (px - ax) * dx + (py - ay) * dy
        ap2 == Sq(px - ax) + Sq(py - ay)
    IN  IF lengthSq = 0 THEN Frac(ap2, 1)
        ELSE IF dot <= 0 THEN Frac(ap2, 1)
        ELSE IF dot >= lengthSq THEN Frac(Sq(px - bx) + Sq(py - by), 1)
        ELSE Frac(ap2 * lengthSq - dot * dot, lengthSq)

\* ---- pointSegmentDistance as the build computes it, in binary64
\* A finite float64 >= 0 below 2^(fixWidth - fracBits) whose last mantissa
\* bit weighs at least 2^-fracBits is held exactly as the sequence of its
\* binary digits, least significant first: digit i weighs 2^(i - 1 - fracBits).
\* The coordinates below are integers in 0..63, for which every value the
\* function computes before the squares is such a number.
mantissaBits == 53
fracBits == 68
fixWidth == 88

\* float64(n) of an integer 0 <= n < 2^(fixWidth - fracBits)
FixInt(n) ==
    SubSeq([i \in 1..fixWidth |->
               IF i > fracBits THEN (n \div 2^(i - 1 - fracBits)) % 2 ELSE 0],
           1, fixWidth)

\* the digits of x + sign * y for sign 1 or -1 (x >= y for -1), unrounded.
\* The carry (borrow) into digit i comes from the highest digit below i that
\* does not pass it on: where the digits agree (differ, when subtracting).
FixSum(x, y, sign) ==
    LET carry(u, v, i) ==
            LET stops == {j \in 1..(i - 1) : (u[j] = v[j]) = (sign = 1)}
                j == CHOOSE k \in stops : \A m \in stops : m <= k
            IN  IF stops = {} THEN 0
                ELSE IF sign = 1 THEN u[j] ELSE u[j] - 1
        sum(u, v) ==
            [i \in 1..fixWidth |-> (u[i] + sign * v[i] + carry(u, v, i)) % 2]
    IN  CHOOSE r \in {SubSeq(sum(u, v), 1, fixWidth) : u \in {x}, v \in {y}} :
            TRUE

\* the digits of x * n for an integer n >= 0, unrounded: the sum of x shifted
\* by k for every binary digit k of n
FixTimes(x, n) ==
    LET shifted(u, k) ==
            SubSeq([i \in 1..fixWidth |-> IF i > k THEN u[i - k] ELSE 0],
                   1, fixWidth)
        RECURSIVE from(_, _)
        from(u, k) ==
            IF 2^k > n THEN FixInt(0)
            ELSE IF (n \div 2^k) % 2 = 1
                 THEN FixSum(shifted(u, k), from(u, k + 1), 1)
                 ELSE from(u, k + 1)
    IN  CHOOSE r \in {from(u, 0) : u \in {x}} : TRUE

\* x < y
FixLess(x, y) ==
    \E u \in {x}, v \in {y} :
        \E i \in 1..fixWidth :
            /\ u[i] < v[i]
            /\ \A j \in (i + 1)..fixWidth : u[j] = v[j]

\* round to nearest, ties to even, to mantissaBits significant digits; sticky:
\* whether digits below the sequence were cut off
RoundFix(x, sticky) ==
    LET round(u) ==
            LET ones == {i \in 1..fixWidth : u[i] = 1}
                top == CHOOSE i \in ones : \A j \in ones : j <= i
                q == top - (mantissaBits - 1)
                kept == [i \in 1..fixWidth |-> IF i >= q THEN u[i] ELSE 0]
                rest == sticky \/ \E i \in 1..(q - 2) : u[i] = 1
                up == u[q - 1] = 1 /\ (rest \/ u[q] = 1)
                ulp == [i \in 1..fixWidth |-> IF i = q THEN 1 ELSE 0]
            IN  IF ones = {} \/ q <= 1 THEN u
                ELSE IF up
                     THEN FixSum(SubSeq(kept, 1, fixWidth),
                                 SubSeq(ulp, 1, fixWidth), 1)
                     ELSE SubSeq(kept, 1, fixWidth)
    IN  CHOOSE r \in {round(u) : u \in {x}} : TRUE

\* float64(num) / float64(den) for integers 0 < num < den, by long division:
\* the remainder after k binary digits is num * 2^k mod den, the k-th digit
\* is twice the remainder before it divided by den; then rounded
FixQuot(num, den) ==
    LET RECURSIVE pow(_)
        pow(k) == IF k = 0 THEN 1 % den ELSE (2 * pow(k - 1)) % den
        rem(k) == (num * pow(k)) % den
        digits == SubSeq([i \in 1..fixWidth |->
                             IF i <= fracBits
                             THEN (2 * rem(fracBits - i)) \div den ELSE 0],
                         1, fixWidth)
    IN  RoundFix(digits, rem(fracBits) # 0)

\* a + t * d along one axis: a the coordinate of A, d = b - a, t in (0, 1).
\* fused: the compiler may evaluate a + t*d as one fused multiply-add, which
\* rounds once (the language allows it; the arm64 build does, amd64 not).
Along64(a, d, t, fused) ==
    LET exact == FixTimes(t, IF d < 0 THEN 0 - d ELSE d)
        step == IF fused THEN exact ELSE RoundFix(exact, FALSE)
    IN  RoundFix(FixSum(FixInt(a), step, IF d < 0 THEN -1 ELSE 1), FALSE)

\* ClosestPoint64 clamping t to the wrong end of [0, 1]
ClosestPoint64_swappedClamp(px, py, ax, ay, bx, by, fused) ==
    LET dx == bx - ax
        dy == by - ay
        lengthSq == dx * dx + dy * dy
        dot == (px - ax) * dx + (py - ay) * dy
    IN  IF lengthSq = 0 THEN <<FixInt(ax), FixInt(ay)>>
        ELSE IF dot <= 0 THEN <<FixInt(bx), FixInt(by)>>
        ELSE IF dot >= lengthSq THEN <<FixInt(ax), FixInt(ay)>>
        ELSE CHOOSE c \in {<<Along64(ax, dx, t, fused),
                             Along64(ay, dy, t, fused)>> :
                               t \in {FixQuot(dot, lengthSq)}} : TRUE

\* closestX, closestY of pointSegmentDistance in binary64
ClosestPoint64(px, py, ax, ay, bx, by, fused) ==
    LET dx == bx - ax
        dy == by - ay
        lengthSq == dx * dx + dy * dy
        dot == (px - ax) * dx + (py - ay) * dy
    IN  IF lengthSq = 0 THEN <<FixInt(ax), FixInt(ay)>>
        ELSE IF dot <= 0 THEN <<FixInt(ax), FixInt(ay)>>
        ELSE IF dot >= lengthSq THEN <<FixInt(bx), FixInt(by)>>
        ELSE CHOOSE c \in {<<Along64(ax, dx, t, fused),
                             Along64(ay, dy, t, fused)>> :
                               t \in {FixQuot(dot, lengthSq)}} : TRUE

\* |x - y|, unrounded
FixDiff(x, y) ==
    IF FixLess(x, y) THEN FixSum(y, x, -1) ELSE FixSum(x, y, -1)

\* px - closestX and py - closestY in binary64, as magnitudes; the value
\* returned is the square root of the sum of their squares, which is 0 iff
\* both are 0 (neither square underflows: a magnitude that is not 0 is at
\* least 2^-fracBits)
Residue64(px, py, closest) ==
    <<RoundFix(FixDiff(FixInt(px), closest[1]), FALSE),
      RoundFix(FixDiff(FixInt(py), closest[2]), FALSE)>>

\* dist < hitThreshold + track.Thickness / 2, on the squared distance
WithinEffectiveThreshold(dist, track) ==
    /\ 2 * hitThreshold + track.Thickness > 0
    /\ 4 * dist.n < Sq(2 * hitThreshold + track.Thickness) * dist.d

\* Closer with dist <= minDist
Closer_orEqual(dist, minDist, track) ==
    ~FracLess(minDist, dist) /\ WithinEffectiveThreshold(dist, track)

\* the loop condition that lets track i replace the best so far
Closer(dist, minDist, track) ==
    FracLess(dist, minDist) /\ WithinEffectiveThreshold(dist, track)

\* the loop of findClosestTrack from Go index i down to 0
RECURSIVE ClosestLoop(_, _, _, _, _, _)
ClosestLoop(trk, worldX, worldY, i, minDist, closestIndex) ==
    IF i < 0 THEN closestIndex
    ELSE LET track == trk[i + 1]
             dist == pointSegmentDistance(worldX, worldY, track.X1, track.Y1,
                                          track.X2, track.Y2)
         IN  IF Closer(dist, minDist, track)
             THEN ClosestLoop(trk, worldX, worldY, i - 1, dist, i)
             ELSE ClosestLoop(trk, worldX, worldY, i - 1, minDist, closestIndex)

\* findClosestTrack with minDist starting one pixel above hitThreshold
findClosestTrack_wideStart(trk, worldX, worldY) ==
    ClosestLoop(trk, worldX, worldY, Len(trk) - 1,
                Frac((hitThreshold + 1) * (hitThreshold + 1), 1), -1)

\* findClosestTrack: Go index of the closest track within the threshold, or -1
findClosestTrack(trk, worldX, worldY) ==
    ClosestLoop(trk, worldX, worldY, Len(trk) - 1,
                Frac(hitThreshold * hitThreshold, 1), -1)

\* ------------------------------------------------------------ context menu
NoColor == <<>>
squareSpacing == popupColorSquareSize + 5

\* the closure of a colour swatch: captured index and colour
ColorOption(popX, popY, i, optIndex) ==
    LET colorRowY == popY + popupPadding
        colorStartX == popX + popupPadding
    IN  [Label  |-> "",
         Rect   |-> Rect(colorStartX + i * squareSpacing, colorRowY,
                         colorStartX + i * squareSpacing + popupColorSquareSize,
                         colorRowY + popupColorSquareSize),
         Color  |-> colorPalette[colorKeys[i + 1]],
         kind   |-> "color",
         optIndex |-> optIndex]

\* DeleteOption with the row of the swatches as deleteRowY
DeleteOption_onSwatchRow(popX, popY, optIndex) ==
    [Label  |-> "Apagar",
     Rect   |-> Rect(popX + popupPadding, popY + popupPadding,
                     popX + popupWidth - popupPadding,
                     popY + popupPadding + popupOptionHeight),
     Color  |-> NoColor,
     kind   |-> "delete",
     optIndex |-> optIndex]

\* the closure of the "Apagar" row: captured index
DeleteOption(popX, popY, optIndex) ==
    LET deleteRowY == popY + popupPadding + popupColorSquareSize + popupPadding
    IN  [Label  |-> "Apagar",
         Rect   |-> Rect(popX + popupPadding, deleteRowY,
                         popX + popupWidth - popupPadding,
                         deleteRowY + popupOptionHeight),
         Color  |-> NoColor,
         kind   |-> "delete",
         optIndex |-> optIndex]

\* generatePopupOptions with the delete row appended first
generatePopupOptions_deleteFirst(g) ==
    IF g.selectedTrackIndex < 0 \/ g.selectedTrackIndex >= Len(g.tracks)
    THEN <<>>
    ELSE <<DeleteOption(g.popupX, g.popupY, g.selectedTrackIndex)>>
         \o [i \in 1..Len(colorKeys) |->
                ColorOption(g.popupX, g.popupY, i - 1, g.selectedTrackIndex)]

\* generatePopupOptions: the option list for g.selectedTrackIndex at the anchor
generatePopupOptions(g) ==
    IF g.selectedTrackIndex < 0 \/ g.selectedTrackIndex >= Len(g.tracks)
    THEN <<>>
    ELSE [i \in 1..Len(colorKeys) |->
             ColorOption(g.popupX, g.popupY, i - 1, g.selectedTrackIndex)]
         \o <<DeleteOption(g.popupX, g.popupY, g.selectedTrackIndex)>>

\* ColorAction giving the track the current gauge as well
ColorAction_setsGauge(g, opt) ==
    IF opt.optIndex >= 0 /\ opt.optIndex < Len(g.tracks)
    THEN [g EXCEPT !.tracks[opt.optIndex + 1].Color = opt.Color,
                   !.tracks[opt.optIndex + 1].Thickness = g.thickness]
    ELSE g

\* the Action closure of a swatch, run on the state g
ColorAction(g, opt) ==
    IF opt.optIndex >= 0 /\ opt.optIndex < Len(g.tracks)
    THEN [g EXCEPT !.tracks[opt.optIndex + 1].Color = opt.Color]
    ELSE g

\* DeleteAction cutting the list at its end instead of at optIndex
DeleteAction_dropsLast(g, opt) ==
    IF opt.optIndex >= 0 /\ opt.optIndex < Len(g.tracks)
    THEN [g EXCEPT !.tracks = SubSeq(g.tracks, 1, Len(g.tracks) - 1),
                   !.selectedTrackIndex = -1]
    ELSE g

\* the Action closure of the delete row, run on the state g
DeleteAction(g, opt) ==
    IF opt.optIndex >= 0 /\ opt.optIndex < Len(g.tracks)
    THEN [g EXCEPT !.tracks = RemoveAt(g.tracks, opt.optIndex + 1),
                   !.selectedTrackIndex = -1]
    ELSE g

\* option.Action()
RunAction(g, opt) ==
    IF opt.kind = "color" THEN ColorAction(g, opt) ELSE DeleteAction(g, opt)

RECURSIVE MaxOptionY(_, _, _)
MaxOptionY(opts, k, maxY) ==
    IF k > Len(opts) THEN maxY
    ELSE MaxOptionY(opts, k + 1,
                    IF opts[k].Rect.MaxY > maxY THEN opts[k].Rect.MaxY ELSE maxY)

\* the popup height calculatePopupDrawPosition works with
PopupHeight(g) ==
    IF Len(g.popupOptions) > 0
    THEN (MaxOptionY(g.popupOptions, 1, 0) - g.popupY) + popupPadding
    ELSE popupPadding * 2 + popupColorSquareSize + popupOptionHeight
         + popupPadding

\* calculatePopupDrawPosition without the shift from the right and bottom edge
calculatePopupDrawPosition_noShift(g) ==
    <<IF g.popupX < 0 THEN 0 ELSE g.popupX,
      IF g.popupY < 0 THEN 0 ELSE g.popupY>>

\* calculatePopupDrawPosition: the anchor, moved to keep the popup on screen
calculatePopupDrawPosition(g) ==
    LET popupHeight == PopupHeight(g)
        x1 == IF g.popupX + popupWidth > g.screenWidth
              THEN g.screenWidth - popupWidth ELSE g.popupX
        y1 == IF g.popupY + popupHeight > g.screenHeight
              THEN g.screenHeight - popupHeight ELSE g.popupY
    IN  <<IF x1 < 0 THEN 0 ELSE x1, IF y1 < 0 THEN 0 ELSE y1>>

\* option.Rect.Add(image.Pt(popupDrawX-g.popupX, popupDrawY-g.popupY))
OptionDrawRect(g, opt) ==
    LET pos == calculatePopupDrawPosition(g)
    IN  RectAdd(opt.Rect, pos[1] - g.popupX, pos[2] - g.popupY)

\* index (from 1) of the first option whose drawn rectangle holds the point,
\* 0 when none does: the scan both click loops make
RECURSIVE FirstOptionAt(_, _, _, _)
FirstOptionAt(g, x, y, k) ==
    IF k > Len(g.popupOptions) THEN 0
    ELSE IF PtIn(x, y, OptionDrawRect(g, g.popupOptions[k])) THEN k
    ELSE FirstOptionAt(g, x, y, k + 1)

\* ---------------------------------------------------------------- the file
\* encoding/json on a Track: the tagged fields become the members of a JSON
\* object, color.RGBA an object of its four exported fields; numbers are
\* written in the shortest form that reads back as the same float64
EncodeColor(c) == [R |-> c[1], G |-> c[2], B |-> c[3], A |-> c[4]]

\* EncodeTrack with LengthMeters left out of the object
EncodeTrack_noLength(t) ==
    [x1 |-> t.X1, y1 |-> t.Y1, x2 |-> t.X2, y2 |-> t.Y2,
     color |-> EncodeColor(t.Color), thickness |-> t.Thickness]

EncodeTrack(t) ==
    [x1 |-> t.X1, y1 |-> t.Y1, x2 |-> t.X2, y2 |-> t.Y2,
     color |-> EncodeColor(t.Color), thickness |-> t.Thickness,
     lengthMeters |-> t.LengthMeters]

\* encoder.Encode(g.tracks): a JSON array, one object per track, in order
EncodeTracks(trk) == [i \in 1..Len(trk) |-> EncodeTrack(trk[i])]

\* a member of a JSON object, the zero value when the object lacks it
Member(o, name, zero) == IF name \in DOMAIN o THEN o[name] ELSE zero

DecodeColor(o) ==
    <<Member(o, "R", 0), Member(o, "G", 0), Member(o, "B", 0),
      Member(o, "A", 0)>>

DecodeTrack(o) ==
    [X1 |-> Member(o, "x1", 0), Y1 |-> Member(o, "y1", 0),
     X2 |-> Member(o, "x2", 0), Y2 |-> Member(o, "y2", 0),
     Color |-> DecodeColor(Member(o, "color", [R |-> 0])),
     Thickness |-> Member(o, "thickness", 0),
     LengthMeters |-> Member(o, "lengthMeters", 0)]

\* decoder.Decode(&loadedTracks) of a well-formed array
DecodeTracks(json) == [i \in 1..Len(json) |-> DecodeTrack(json[i])]

\* a path with no file behind it, and a file with its contents
NoFile == [exists |-> FALSE, json |-> <<>>]
FileOf(json) == [exists |-> TRUE, json |-> json]

\* a path is a sequence of characters; the extension saveTracks looks for
jsonSuffix == <<".", "j", "s", "o", "n">>

\* strings.ToLower, on the characters the paths below are made of
ToLower(s) ==
    LET lower(c) ==
            CASE c = "J" -> "j" [] c = "S" -> "s" [] c = "O" -> "o"
              [] c = "N" -> "n" [] c = "A" -> "a" [] OTHER -> c
    IN  [i \in 1..Len(s) |-> lower(s[i])]

\* strings.HasSuffix
HasSuffix(s, suffix) ==
    /\ Len(s) >= Len(suffix)
    /\ SubSeq(s, Len(s) - Len(suffix) + 1, Len(s)) = suffix

\* SavePath comparing the extension as it is spelled
SavePath_caseSensitive(savePath) ==
    IF ~HasSuffix(savePath, jsonSuffix) THEN savePath \o jsonSuffix
    ELSE savePath

\* the path saveTracks creates for the non-empty path the dialog returned
SavePath(savePath) ==
    IF ~HasSuffix(ToLower(savePath), jsonSuffix) THEN savePath \o jsonSuffix
    ELSE savePath

\* what os.Create and encoder.Encode leave at the chosen path
WriteFile(g, res, file) ==
    IF res = "ok" THEN FileOf(EncodeTracks(g.tracks)) ELSE file

\* what the load dialog, os.Open and the decoder answer when the user picks
\* the path of the last save ("saved"); any other answer is passed on
LoadSource(res, data, file) ==
    IF res # "saved" THEN [res |-> res, data |-> data]
    ELSE IF file.exists THEN [res |-> "ok", data |-> DecodeTracks(file.json)]
    ELSE [res |-> "openError", data |-> <<>>]

\* -------------------------------------------------------------------- state
VARIABLES
    tracks,              \* g.tracks: sequence of Track records
    startX, startY,      \* g.startX, g.startY: world start of the drawing, or NaN
    drawing,             \* g.drawing
    currentColor,        \* g.currentColor
    thickness,           \* g.thickness
    screenWidth,         \* g.screenWidth
    screenHeight,        \* g.screenHeight
    cameraOffsetX,       \* g.cameraOffsetX
    cameraOffsetY,       \* g.cameraOffsetY
    popupVisible,        \* g.popupVisible
    popupX, popupY,      \* g.popupX, g.popupY: the popup anchor (screen)
    selectedTrackIndex,  \* g.selectedTrackIndex (Go index, -1 for none)
    popupOptions,        \* g.popupOptions
    hoveredTrackIndex,   \* g.hoveredTrackIndex (Go index, -1 for none)
    leftDown,            \* host: the left mouse button was held at the last tick
    savedFile,           \* host: the file the last successful save wrote
    savedTracks,         \* history: g.tracks as that save encoded it
    popupTrack,          \* history: the track the open popup was opened on
    view,                \* history: the last coordinate conversion made
    last                 \* history: what the last step did

gameVars == <<tracks, startX, startY, drawing, currentColor, thickness,
              screenWidth, screenHeight, cameraOffsetX, cameraOffsetY,
              popupVisible, popupX, popupY, selectedTrackIndex, popupOptions,
              hoveredTrackIndex>>

vars == <<gameVars, leftDown, savedFile, savedTracks, popupTrack, view, last>>

\* the Game struct as one record
Game ==
    [tracks |-> tracks, startX |-> startX, startY |-> startY,
     drawing |-> drawing, currentColor |-> currentColor,
     thickness |-> thickness, screenWidth |-> screenWidth,
     screenHeight |-> screenHeight, cameraOffsetX |-> cameraOffsetX,
     cameraOffsetY |-> cameraOffsetY, popupVisible |-> popupVisible,
     popupX |-> popupX, popupY |-> popupY,
     selectedTrackIndex |-> selectedTrackIndex,
     popupOptions |-> popupOptions, hoveredTrackIndex |-> hoveredTrackIndex]

\* NewGame; startX, startY, popupX, popupY keep Go's zero value
NewGame ==
    [tracks |-> <<>>, startX |-> Num(0), startY |-> Num(0),
     drawing |-> FALSE, currentColor |-> colorPalette["1"],
     thickness |-> initialThickness, screenWidth |-> defaultWidth,
     screenHeight |-> defaultHeight, cameraOffsetX |-> 0,
     cameraOffsetY |-> 0, popupVisible |-> FALSE, popupX |-> 0, popupY |-> 0,
     selectedTrackIndex |-> -1, popupOptions |-> <<>>,
     hoveredTrackIndex |-> -1]

NoTrack == <<>>
NoView == [fn |-> "none"]
NoSnapshot == <<>>

\* the history record of a step
Last(op, lp, rp, lr, cx, cy, just, saveRes, loadRes, loadData, fromSaved, optRun, popupWas, drawEnd, pre, ret) ==
    [op |-> op, lp |-> lp, rp |-> rp, lr |-> lr, cx |-> cx, cy |-> cy,
     just |-> just,
     saveRes |-> saveRes, loadRes |-> loadRes, loadData |-> loadData,
     fromSaved |-> fromSaved,
     optRun |-> optRun, popupWas |-> popupWas, drawEnd |-> drawEnd,
     pre |-> pre, ret |-> ret]

Quiet(op) ==
    Last(op, FALSE, FALSE, FALSE, 0, 0, {}, "none", "none", <<>>, FALSE, 0,
         FALSE, "none", NoSnapshot, "nil")

SetGame(g) ==
    /\ tracks' = g.tracks
    /\ startX' = g.startX
    /\ startY' = g.startY
    /\ drawing' = g.drawing
    /\ currentColor' = g.currentColor
    /\ thickness' = g.thickness
    /\ screenWidth' = g.screenWidth
    /\ screenHeight' = g.screenHeight
    /\ cameraOffsetX' = g.cameraOffsetX
    /\ cameraOffsetY' = g.cameraOffsetY
    /\ popupVisible' = g.popupVisible
    /\ popupX' = g.popupX
    /\ popupY' = g.popupY
    /\ selectedTrackIndex' = g.selectedTrackIndex
    /\ popupOptions' = g.popupOptions
    /\ hoveredTrackIndex' = g.hoveredTrackIndex

Init ==
    /\ tracks = NewGame.tracks
    /\ startX = NewGame.startX
    /\ startY = NewGame.startY
    /\ drawing = NewGame.drawing
    /\ currentColor = NewGame.currentColor
    /\ thickness = NewGame.thickness
    /\ screenWidth = NewGame.screenWidth
    /\ screenHeight = NewGame.screenHeight
    /\ cameraOffsetX = NewGame.cameraOffsetX
    /\ cameraOffsetY = NewGame.cameraOffsetY
    /\ popupVisible = NewGame.popupVisible
    /\ popupX = NewGame.popupX
    /\ popupY = NewGame.popupY
    /\ selectedTrackIndex = NewGame.selectedTrackIndex
    /\ popupOptions = NewGame.popupOptions
    /\ hoveredTrackIndex = NewGame.hoveredTrackIndex
    /\ leftDown = FALSE
    /\ savedFile = NoFile
    /\ savedTracks = <<>>
    /\ popupTrack = NoTrack
    /\ view = NoView
    /\ last = Quiet("NewGame")

\* ------------------------------------------------------------------ Update
\* what the popup block and the block after it hand on within one tick
Frame(g, popupClicked, optRun, opened, drawEnd) ==
    [g |-> g, popupClicked |-> popupClicked, optRun |-> optRun,
     opened |-> opened, drawEnd |-> drawEnd]

\* ClosePopup without the reset of the selection
ClosePopup_keepsSelection(g) ==
    [g EXCEPT !.popupVisible = FALSE]

\* g.popupVisible = false; g.selectedTrackIndex = -1
ClosePopup(g) ==
    [g EXCEPT !.popupVisible = FALSE, !.selectedTrackIndex = -1]

\* HoverCheck without the popupVisible test
HoverCheck_always(g, worldX, worldY) ==
    [g EXCEPT !.hoveredTrackIndex = findClosestTrack(g.tracks, worldX, worldY)]

\* the tooltip hover check at the top of Update
HoverCheck(g, worldX, worldY) ==
    [g EXCEPT !.hoveredTrackIndex =
        IF ~g.popupVisible THEN findClosestTrack(g.tracks, worldX, worldY)
        ELSE -1]

\* PopupLeftPress without popupClicked = true
PopupLeftPress_notConsumed(f, cx, cy) ==
    LET k == FirstOptionAt(f.g, cx, cy, 1)
    IN  IF k > 0
        THEN [f EXCEPT !.g = ClosePopup(RunAction(f.g, f.g.popupOptions[k])),
                       !.optRun = k]
        ELSE [f EXCEPT !.g = ClosePopup(f.g)]

\* popup visible, left button just pressed
PopupLeftPress(f, cx, cy) ==
    LET k == FirstOptionAt(f.g, cx, cy, 1)
    IN  IF k > 0
        THEN [f EXCEPT !.g = ClosePopup(RunAction(f.g, f.g.popupOptions[k])),
                       !.popupClicked = TRUE,
                       !.optRun = k]
        ELSE [f EXCEPT !.g = ClosePopup(f.g), !.popupClicked = TRUE]

\* PopupRightPress without the inAnyOption test
PopupRightPress_anywhere(f, cx, cy) ==
    [f EXCEPT !.g = ClosePopup(f.g), !.popupClicked = TRUE]

\* popup visible, right button just pressed
PopupRightPress(f, cx, cy) ==
    IF FirstOptionAt(f.g, cx, cy, 1) = 0
    THEN [f EXCEPT !.g = ClosePopup(f.g), !.popupClicked = TRUE]
    ELSE f

\* if g.popupVisible { ... }: both presses are looked at once the block is entered
PopupBlock(f, cx, cy, lp, rp) ==
    IF ~f.g.popupVisible THEN f
    ELSE LET f1 == IF lp THEN PopupLeftPress(f, cx, cy) ELSE f
         IN  IF rp THEN PopupRightPress(f1, cx, cy) ELSE f1

\* OpenPopupPress without g.popupX, g.popupY = cursorX, cursorY
OpenPopupPress_keepsAnchor(g, cx, cy, worldX, worldY) ==
    LET clickedIndex == findClosestTrack(g.tracks, worldX, worldY)
        g1 == [g EXCEPT !.selectedTrackIndex = clickedIndex,
                        !.popupVisible = TRUE]
    IN  IF clickedIndex # -1
        THEN [g1 EXCEPT !.popupOptions = generatePopupOptions(g1),
                        !.hoveredTrackIndex = -1]
        ELSE ClosePopup(g)

\* right press not consumed by the popup: open the popup on the track hit
OpenPopupPress(g, cx, cy, worldX, worldY) ==
    LET clickedIndex == findClosestTrack(g.tracks, worldX, worldY)
        g1 == [g EXCEPT !.selectedTrackIndex = clickedIndex,
                        !.popupVisible = TRUE,
                        !.popupX = cx,
                        !.popupY = cy]
    IN  IF clickedIndex # -1
        THEN [g1 EXCEPT !.popupOptions = generatePopupOptions(g1),
                        !.hoveredTrackIndex = -1]
        ELSE ClosePopup(g)

\* StartDrawing recording the screen cursor instead of the world cursor
StartDrawing_screenCursor(g, worldX, worldY) ==
    [g EXCEPT !.startX = Num(worldX - g.cameraOffsetX),
              !.startY = Num(worldY - g.cameraOffsetY),
              !.drawing = TRUE, !.popupVisible = FALSE,
              !.selectedTrackIndex = -1, !.hoveredTrackIndex = -1]

\* left press not consumed by the popup: start a drawing
StartDrawing(g, worldX, worldY) ==
    [g EXCEPT !.startX = Num(worldX), !.startY = Num(worldY),
              !.drawing = TRUE, !.popupVisible = FALSE,
              !.selectedTrackIndex = -1, !.hoveredTrackIndex = -1]

\* DragCommits with distPx >= 1.0
DragCommits_atLeastOne(sx, sy, ex, ey) == Sq(ex - sx) + Sq(ey - sy) >= 1

\* distPx > 1.0, on the squared distance
DragCommits(sx, sy, ex, ey) == Sq(ex - sx) + Sq(ey - sy) > 1

\* the Track literal appended on a commit
NewTrack(g, endWorldX, endWorldY) ==
    [X1 |-> g.startX.v, Y1 |-> g.startY.v, X2 |-> endWorldX, Y2 |-> endWorldY,
     Color |-> g.currentColor, Thickness |-> g.thickness,
     LengthMeters |-> calculateLengthMeters(g.startX.v, g.startY.v,
                                            endWorldX, endWorldY)]

\* FinishDrawing with the new track put in front of the list
FinishDrawing_prepend(f, worldX, worldY) ==
    LET g == f.g
        commit == /\ ~IsNaN(g.startX)
                  /\ ~IsNaN(g.startY)
                  /\ DragCommits(g.startX.v, g.startY.v, worldX, worldY)
        g1 == IF commit
              THEN [g EXCEPT !.tracks = <<NewTrack(g, worldX, worldY)>>
                                            \o g.tracks]
              ELSE g
    IN  [f EXCEPT !.g = [g1 EXCEPT !.drawing = FALSE, !.startX = NaN,
                                   !.startY = NaN],
                  !.drawEnd = IF commit THEN "commit" ELSE "discard"]

\* left release while g.drawing: commit or discard, then leave the drawing.
\* calculateLengthMeters of finite numbers is never NaN.
FinishDrawing(f, worldX, worldY) ==
    LET g == f.g
        commit == /\ ~IsNaN(g.startX)
                  /\ ~IsNaN(g.startY)
                  /\ DragCommits(g.startX.v, g.startY.v, worldX, worldY)
        g1 == IF commit
              THEN [g EXCEPT !.tracks = Append(g.tracks,
                                               NewTrack(g, worldX, worldY))]
              ELSE g
    IN  [f EXCEPT !.g = [g1 EXCEPT !.drawing = FALSE, !.startX = NaN,
                                   !.startY = NaN],
                  !.drawEnd = IF commit THEN "commit" ELSE "discard"]

\* if !popupClicked { ... }
OtherBlock(f, cx, cy, worldX, worldY, lp, rp, lr) ==
    IF f.popupClicked THEN f
    ELSE LET g1 == IF rp THEN OpenPopupPress(f.g, cx, cy, worldX, worldY)
                   ELSE f.g
             g2 == IF lp THEN StartDrawing(g1, worldX, worldY) ELSE g1
             f2 == [f EXCEPT !.g = g2,
                             !.opened = rp /\ g1.popupVisible]
         IN  IF lr /\ g2.drawing THEN FinishDrawing(f2, worldX, worldY)
             ELSE f2

\* camera scroll with the arrow keys held
Pan(g, held) ==
    LET dx == (IF "Right" \in held THEN cameraScrollSpeed ELSE 0)
              - (IF "Left" \in held THEN cameraScrollSpeed ELSE 0)
        dy == (IF "Down" \in held THEN cameraScrollSpeed ELSE 0)
              - (IF "Up" \in held THEN cameraScrollSpeed ELSE 0)
    IN  [g EXCEPT !.cameraOffsetX = @ + dx, !.cameraOffsetY = @ + dy]

\* for key, clr := range g.colorPalette: the first just-pressed key the map
\* iteration meets sets the colour; first is that key, "none" when no
\* palette key was just pressed
PaletteKeys(g, first) ==
    IF first = "none" THEN g
    ELSE [g EXCEPT !.currentColor = colorPalette[first]]

\* ThicknessKeys without the upper clamp
ThicknessKeys_noCeiling(g, just) ==
    LET t1 == IF "Equal" \in just THEN g.thickness + 1 ELSE g.thickness
        t2 == IF "Minus" \in just
              THEN (IF t1 - 1 < thicknessMin THEN thicknessMin ELSE t1 - 1)
              ELSE t1
    IN  [g EXCEPT !.thickness = t2]

\* the keys the range over the colorPalette map may meet first: Go leaves the
\* iteration order of a map unspecified, so it is any of the palette keys
\* just pressed ("none" when there is none)
FirstChoices(just) ==
    IF just \cap DOMAIN colorPalette = {} THEN {"none"}
    ELSE just \cap DOMAIN colorPalette

\* + and - adjust the gauge, each clamped
ThicknessKeys(g, just) ==
    LET t1 == IF "Equal" \in just
              THEN (IF g.thickness + 1 > thicknessMax THEN thicknessMax
                    ELSE g.thickness + 1)
              ELSE g.thickness
        t2 == IF "Minus" \in just
              THEN (IF t1 - 1 < thicknessMin THEN thicknessMin ELSE t1 - 1)
              ELSE t1
    IN  [g EXCEPT !.thickness = t2]

\* key C
ClearKey(g, just) ==
    IF "C" \in just
    THEN [g EXCEPT !.tracks = <<>>, !.cameraOffsetX = 0, !.cameraOffsetY = 0,
                   !.popupVisible = FALSE, !.selectedTrackIndex = -1,
                   !.hoveredTrackIndex = -1]
    ELSE g

CancelRes == {"cancelled", "emptyPath"}

\* saveTracks: res is what the dialog and the file system answer
saveTracks(g, res) ==
    [g |-> g, err |-> IF res \in CancelRes \cup {"ok"} THEN "nil" ELSE res]

\* loadTracks resetting the camera before the file is opened
loadTracks_cameraFirst(g, res, data) ==
    IF res \in CancelRes THEN [g |-> g, err |-> "nil"]
    ELSE [g |-> [g EXCEPT !.tracks = IF res = "ok" THEN data ELSE @,
                          !.cameraOffsetX = 0, !.cameraOffsetY = 0],
          err |-> IF res = "ok" THEN "nil" ELSE res]

\* loadTracks decoding straight into g.tracks
loadTracks_decodeInPlace(g, res, data) ==
    IF res \in {"ok", "decodeError"}
    THEN [g |-> [g EXCEPT !.tracks = data, !.cameraOffsetX = 0,
                          !.cameraOffsetY = 0],
          err |-> IF res = "ok" THEN "nil" ELSE res]
    ELSE [g |-> g, err |-> IF res \in CancelRes THEN "nil" ELSE res]

\* loadTracks: res is what the dialog, the file system and the decoder
\* answer; data is what the decoder put into loadedTracks (on a decode
\* error: what it had decoded before the error)
loadTracks(g, res, data) ==
    IF res = "ok"
    THEN [g |-> [g EXCEPT !.tracks = data, !.cameraOffsetX = 0,
                          !.cameraOffsetY = 0],
          err |-> "nil"]
    ELSE [g |-> g, err |-> IF res \in CancelRes THEN "nil" ELSE res]

\* UpdateReturn ending the program in a tick that asks for a save as well
UpdateReturn_onSave(just) ==
    IF "Escape" \in just \/ "S" \in just THEN "Termination" ELSE "nil"

\* the value Update returns
UpdateReturn(just) == IF "Escape" \in just THEN "Termination" ELSE "nil"

\* the fields a failed or cancelled save or load is compared against
Snapshot(g) == g

\* the model's bounds on a tick: a commit is offered while fewer than
\* MaxTracks tracks exist, the camera stays within MaxPan scroll steps of the
\* origin, the gauge within MaxGauge steps above its initial value
WithinBounds(f, g) ==
    /\ f.drawEnd = "commit" => Len(f.g.tracks) <= MaxTracks
    /\ g.cameraOffsetX \in (0 - MaxPan * cameraScrollSpeed)..(MaxPan * cameraScrollSpeed)
    /\ g.cameraOffsetY \in (0 - MaxPan * cameraScrollSpeed)..(MaxPan * cameraScrollSpeed)
    /\ g.thickness \in initialThickness..(initialThickness + MaxGauge)

\* the same bounds without the one on the gauge, which the program keeps in
\* thicknessMin..thicknessMax by itself
WithinTracksAndPan(f, g) ==
    /\ f.drawEnd = "commit" => Len(f.g.tracks) <= MaxTracks
    /\ g.cameraOffsetX \in (0 - MaxPan * cameraScrollSpeed)..(MaxPan * cameraScrollSpeed)
    /\ g.cameraOffsetY \in (0 - MaxPan * cameraScrollSpeed)..(MaxPan * cameraScrollSpeed)

\* the mouse part of Update: hover check, popup block, the block after it
MousePhase(g, cx, cy, lp, rp, lr) ==
    OtherBlock(
        PopupBlock(
            Frame(HoverCheck(g, screenToWorld(g, cx, cy)[1],
                             screenToWorld(g, cx, cy)[2]),
                  FALSE, 0, FALSE, "none"),
            cx, cy, lp, rp),
        cx, cy, screenToWorld(g, cx, cy)[1], screenToWorld(g, cx, cy)[2],
        lp, rp, lr)

\* the keyboard part of Update up to and including key C
CommandPhase(g, held, just, first) ==
    ClearKey(ThicknessKeys(PaletteKeys(Pan(g, held), first), just), just)

\* keys S and L: the errors saveTracks and loadTracks return are dropped
SavePhase(g, just, saveRes) ==
    IF "S" \in just THEN saveTracks(g, saveRes).g ELSE g

LoadPhase(g, just, loadRes, loadData) ==
    IF "L" \in just THEN loadTracks(g, loadRes, loadData).g ELSE g

\* One call of Update.  in: the cursor position, whether the left button is
\* held, whether the right button was just pressed, the arrow keys held, the
\* keys just pressed in this tick, the palette key the map iteration meets
\* first, and what the file dialogs answer.  (The program never reads the
\* right button's held state and has no handler for its release.)
\* gaugeBound: whether the model's bound on the gauge applies to the tick.
UpdateWithin(in, gaugeBound) ==
    \E lp \in {in.left /\ ~leftDown}, lr \in {~in.left /\ leftDown} :
    \E f2 \in {MousePhase(Game, in.cursorX, in.cursorY, lp, in.right, lr)} :
    \E g6 \in {CommandPhase(f2.g, in.held, in.just, in.first)} :
    \E file \in {IF "S" \in in.just THEN WriteFile(g6, in.saveRes, savedFile)
                 ELSE savedFile} :
    \E src \in {LoadSource(in.loadRes, in.loadData, file)} :
    \E g8 \in {LoadPhase(SavePhase(g6, in.just, in.saveRes), in.just,
                         src.res, src.data)} :
        /\ last.ret = "nil"
        /\ IF gaugeBound THEN WithinBounds(f2, g8)
           ELSE WithinTracksAndPan(f2, g8)
        /\ SetGame(g8)
        /\ leftDown' = in.left
        /\ savedFile' = file
        /\ view' = view
        /\ savedTracks' = IF "S" \in in.just /\ in.saveRes = "ok"
                          THEN g6.tracks ELSE savedTracks
        /\ popupTrack' = IF ~g8.popupVisible THEN NoTrack
                         ELSE IF f2.opened
                         THEN tracks[f2.g.selectedTrackIndex + 1]
                         ELSE popupTrack
        /\ last' = Last("Update", lp, in.right, lr,
                        IF lp \/ in.right \/ lr THEN in.cursorX ELSE 0,
                        IF lp \/ in.right \/ lr THEN in.cursorY ELSE 0,
                        in.just,
                        IF "S" \in in.just THEN in.saveRes ELSE "none",
                        IF "L" \in in.just THEN src.res ELSE "none",
                        IF "L" \in in.just /\ src.res = "ok"
                        THEN src.data ELSE <<>>,
                        "L" \in in.just /\ in.loadRes = "saved",
                        f2.optRun, popupVisible, f2.drawEnd,
                        IF "S" \in in.just
                           \/ ("L" \in in.just /\ src.res # "ok")
                        THEN Snapshot(g6) ELSE NoSnapshot,
                        UpdateReturn(in.just))

Update(in) == UpdateWithin(in, TRUE)

\* a call of worldToScreen on a world point, as Draw makes for the endpoints
\* of the tracks, followed by screenToWorld on the pixel it returns
CallWorldToScreen(p) ==
    /\ view' = LET s == worldToScreen(Game, p[1], p[2])
               IN  [fn |-> "worldToScreen",
                    cam |-> <<cameraOffsetX, cameraOffsetY>>,
                    arg |-> p, res |-> s,
                    back |-> screenToWorld(Game, s[1], s[2])]
    /\ UNCHANGED <<gameVars, leftDown, savedFile, savedTracks, popupTrack,
                   last>>

\* a call of screenToWorld on a screen point, as Update makes for the cursor,
\* followed by worldToScreen on the point it returns
CallScreenToWorld(s) ==
    /\ view' = LET p == screenToWorld(Game, s[1], s[2])
               IN  [fn |-> "screenToWorld",
                    cam |-> <<cameraOffsetX, cameraOffsetY>>,
                    arg |-> s, res |-> p,
                    back |-> worldToScreen(Game, p[1], p[2])]
    /\ UNCHANGED <<gameVars, leftDown, savedFile, savedTracks, popupTrack,
                   last>>

\* a call of calculateLengthMeters on two world points, as a commit and Draw's
\* preview of the drawing make
CallCalculateLength(p, q) ==
    /\ view' = [fn |-> "calculateLengthMeters", arg |-> <<p, q>>,
                res |-> calculateLengthMeters(p[1], p[2], q[1], q[2])]
    /\ UNCHANGED <<gameVars, leftDown, savedFile, savedTracks, popupTrack,
                   last>>

\* TooltipShown without the test against len(g.tracks)
TooltipShown_noRangeCheck(g) ==
    /\ g.hoveredTrackIndex # -1
    /\ ~g.popupVisible
    /\ ~g.drawing

\* Draw, step 4: whether the tooltip of the hovered track is drawn
TooltipShown(g) ==
    /\ g.hoveredTrackIndex # -1
    /\ g.hoveredTrackIndex < Len(g.tracks)
    /\ ~g.popupVisible
    /\ ~g.drawing

\* one call of pointSegmentDistance on P, A, B in the binary64 arithmetic of
\* the build (fused: with or without a fused multiply-add), beside the
\* squared distance in exact arithmetic that the hit test above is modelled
\* on; each call is looked at on its own, from the initial state
CallPointSegmentDistance(p, a, b, fused) ==
    /\ view = NoView
    /\ \E c \in {ClosestPoint64(p[1], p[2], a[1], a[2], b[1], b[2], fused)} :
          view' = [fn |-> "pointSegmentDistance", arg |-> <<p, a, b>>,
                   fused |-> fused, closest |-> c,
                   residue |-> Residue64(p[1], p[2], c),
                   sq |-> pointSegmentDistance(p[1], p[2], a[1], a[2],
                                               b[1], b[2])]
    /\ UNCHANGED <<gameVars, leftDown, savedFile, savedTracks, popupTrack,
                   last>>

\* a save dialog answering the non-empty path p: the path saveTracks creates
CallSavePath(p) ==
    /\ Len(p) > 0
    /\ view' = [fn |-> "savePath", arg |-> p, res |-> SavePath(p)]
    /\ UNCHANGED <<gameVars, leftDown, savedFile, savedTracks, popupTrack,
                   last>>

\* Draw, step 1: totalLengthMeters over the tracks
RECURSIVE TotalLength(_)
TotalLength(trk) ==
    IF trk = <<>> THEN 0 ELSE trk[1].LengthMeters + TotalLength(Tail(trk))

\* What one call of Draw puts on the screen with the cursor at (cursorX,
\* cursorY).  reads: the indices at which it reads g.tracks; highlight: the
\* tracks drawn in the highlight colour; live: the length of the drawing in
\* progress; popupAt: where the popup is drawn; tooltip: the length the
\* tooltip shows, -1 without a tooltip; panic: whether the index expression
\* g.tracks[g.hoveredTrackIndex] is evaluated out of range, which ends the
\* program before any tooltip is drawn.
Rendered(g, cursorX, cursorY) ==
    LET w == screenToWorld(g, cursorX, cursorY)
        indices == 0..(Len(g.tracks) - 1)
    IN  [fn |-> "Draw",
         total |-> TotalLength(g.tracks),
         reads |-> indices \cup (IF TooltipShown(g)
                                 THEN {g.hoveredTrackIndex} ELSE {}),
         highlight |-> {i \in indices :
                          g.popupVisible /\ i = g.selectedTrackIndex},
         live |-> IF g.drawing /\ ~IsNaN(g.startX) /\ ~IsNaN(g.startY)
                  THEN calculateLengthMeters(g.startX.v, g.startY.v,
                                             w[1], w[2])
                  ELSE 0,
         popupAt |-> IF g.popupVisible
                     THEN calculatePopupDrawPosition(g) ELSE <<>>,
         panic |-> TooltipShown(g) /\ g.hoveredTrackIndex \notin indices,
         tooltip |-> IF TooltipShown(g) /\ g.hoveredTrackIndex \in indices
                     THEN g.tracks[g.hoveredTrackIndex + 1].LengthMeters
                     ELSE -1]

\* DrawFrame keeping the track under the cursor in g.hoveredTrackIndex
DrawFrame_storesHover(g, cursorX, cursorY) ==
    LET w == screenToWorld(g, cursorX, cursorY)
    IN  [g |-> [g EXCEPT !.hoveredTrackIndex =
                            findClosestTrack(g.tracks, w[1], w[2])],
         frame |-> Rendered(g, cursorX, cursorY)]

\* One call of Draw: the Game it leaves, which no statement of Draw assigns
\* to, and the frame it renders
DrawFrame(g, cursorX, cursorY) ==
    [g |-> g, frame |-> Rendered(g, cursorX, cursorY)]

\* the render pass of a frame
Draw(cursorX, cursorY) ==
    \E d \in {DrawFrame(Game, cursorX, cursorY)} :
        /\ last.ret = "nil"
        /\ SetGame(d.g)
        /\ view' = d.frame
        /\ last' = [Quiet("Draw") EXCEPT !.cx = cursorX, !.cy = cursorY]
        /\ UNCHANGED <<leftDown, savedFile, savedTracks, popupTrack>>

\* Layout: the host reports the window size
Layout(outsideWidth, outsideHeight) ==
    /\ last.ret = "nil"
    /\ <<outsideWidth, outsideHeight>> # <<screenWidth, screenHeight>>
    /\ screenWidth' = outsideWidth
    /\ screenHeight' = outsideHeight
    /\ UNCHANGED <<tracks, startX, startY, drawing, currentColor, thickness,
                   cameraOffsetX, cameraOffsetY, popupVisible, popupX, popupY,
                   selectedTrackIndex, popupOptions, hoveredTrackIndex>>
    /\ UNCHANGED <<leftDown, savedFile, savedTracks, popupTrack, view>>
    /\ last' = Quiet("Layout")

\* ------------------------------------------------------------------ inputs
\* Cursor positions.  With the small window every popup is drawn at (0, 0):
\* PtA is then inside the first swatch and PtD inside the delete row; with
\* the default window the popup is drawn at its anchor and neither point is
\* inside an option.
PtA == <<10, 10>>
PtD == <<10, 40>>

smallWidth == 100
smallHeight == 51

ScreenSizes == {<<defaultWidth, defaultHeight>>, <<smallWidth, smallHeight>>}

\* the tracks of the file a load reads
FileTrack1 ==
    [X1 |-> 10, Y1 |-> 10, X2 |-> 10, Y2 |-> 40, Color |-> Green,
     Thickness |-> 3, LengthMeters |-> 3000]

FileTrack2 ==
    [X1 |-> 5, Y1 |-> 40, X2 |-> 40, Y2 |-> 40, Color |-> Yellow,
     Thickness |-> 7, LengthMeters |-> 3500]

File1 == <<FileTrack1>>
File2 == <<FileTrack1, FileTrack2>>

\* the keyboard and dialog part of a tick's input
Keys(held, just, first, saveRes, loadRes, loadData) ==
    [held |-> held, just |-> just, first |-> first, saveRes |-> saveRes,
     loadRes |-> loadRes, loadData |-> loadData]

NoKeys == Keys({}, {}, "none", "none", "none", <<>>)

Held(k) == [NoKeys EXCEPT !.held = {k}]
Just(k) == [NoKeys EXCEPT !.just = {k}]
SaveKey(res) == [NoKeys EXCEPT !.just = {"S"}, !.saveRes = res]
LoadKey(res, data) ==
    [NoKeys EXCEPT !.just = {"L"}, !.loadRes = res, !.loadData = data]

Input(pt, left, right, keys) ==
    [cursorX |-> pt[1], cursorY |-> pt[2], left |-> left, right |-> right,
     held |-> keys.held, just |-> keys.just, first |-> keys.first,
     saveRes |-> keys.saveRes, loadRes |-> keys.loadRes,
     loadData |-> keys.loadData]

InputsOver(pts, rights, keyChoices) ==
    {Input(pt, l, r, k) : pt \in pts, l \in BOOLEAN, r \in rights,
                          k \in keyChoices}

Resize == \E size \in ScreenSizes : Layout(size[1], size[2])

\* the mouse and popup machine, with clear and load
Tick ==
    LET MainKeys ==
                {NoKeys, Just("C"), LoadKey("ok", File2), LoadKey("ok", File1)}
    IN  \E in \in InputsOver({PtA, PtD}, BOOLEAN, MainKeys) :
        Update(in)

Next == Tick \/ Resize

Spec == Init /\ [][Next]_vars

\* the commands: camera scroll, clear and a successful load with every mouse
\* input at PtA; escape, and the saves and loads that fail or are cancelled,
\* with the left button only
TickCmd ==
    LET CmdKeysNoFile ==
            {Just("Escape"), SaveKey("cancelled"), SaveKey("createError"),
             LoadKey("decodeError", <<FileTrack2>>), LoadKey("emptyPath", <<>>),
             LoadKey("openError", <<>>)}
        CmdKeys ==
            {NoKeys, [NoKeys EXCEPT !.held = {"Right", "Down"}], Just("C"),
             LoadKey("ok", File2)}
    IN  \E in \in InputsOver({PtA}, BOOLEAN, CmdKeys)
            \cup InputsOver({PtA}, {FALSE}, CmdKeysNoFile) :
        Update(in)

NextCmd == TickCmd \/ Resize

SpecCmd == Init /\ [][NextCmd]_vars

\* drawing: a second cursor position one pixel from PtA, the palette keys,
\* the gauge keys and a camera scroll during the drag
PtA1 == <<11, 10>>

TickDraw ==
    LET DrawKeys ==
            {NoKeys, [NoKeys EXCEPT !.just = {"2"}, !.first = "2"], Just("Equal"),
             Held("Left")}
    IN  \E in \in InputsOver({PtA, PtA1}, {FALSE}, DrawKeys)
            \cup InputsOver({PtA}, {TRUE}, {NoKeys}) :
        Update(in)

SpecDraw == Init /\ [][TickDraw]_vars

\* hit testing and the popup rectangle: cursor positions at centerline
\* distance 7, 8, 9 and 10 from the vertical file tracks, and a position at
\* distance 4 from both tracks of File2; a window smaller than the popup
PtH7 == <<17, 20>>
PtH8 == <<18, 20>>
PtTie == <<14, 36>>

FileTrack3 ==
    [X1 |-> 10, Y1 |-> 10, X2 |-> 10, Y2 |-> 40, Color |-> Blue,
     Thickness |-> 4, LengthMeters |-> 3000]

File2r == <<FileTrack2, FileTrack1>>

HitKeys ==
    LET File3t == <<FileTrack1, FileTrack3, FileTrack2>>
        File3 == <<FileTrack3>>
    IN  {NoKeys, LoadKey("ok", File1), LoadKey("ok", File3), LoadKey("ok", File2),
     LoadKey("ok", File2r), LoadKey("ok", File3t)}

TickHit ==
    LET PtH10 == <<20, 20>>
        PtH9 == <<19, 20>>
    IN  \E in \in {Input(pt, FALSE, r, k) :
            pt \in {PtH7, PtH8, PtH9, PtH10, PtD, PtTie}, r \in BOOLEAN,
            k \in HitKeys} :
        Update(in)

ResizeHit ==
    LET tinyHeight == 40
        tinyWidth == 80
    IN  \E size \in ScreenSizes \cup {<<tinyWidth, tinyHeight>>,
                                  <<defaultWidth, smallHeight>>} :
        Layout(size[1], size[2])

NextHit == TickHit \/ ResizeHit

SpecHit == Init /\ [][NextHit]_vars

\* the file: drawing with two colours in both directions, saving, clearing and
\* loading the saved file back
TickFile ==
    LET FileKeys ==
            {NoKeys, [NoKeys EXCEPT !.just = {"2"}, !.first = "2"], Just("C"),
             SaveKey("ok"), LoadKey("saved", <<>>)}
    IN  \E in \in InputsOver({PtA, PtD}, {FALSE}, FileKeys) :
        Update(in)

SpecFile == Init /\ [][TickFile]_vars

\* the element store: drawing towards PtA, the popup opened at PtA with a
\* left-press on its first swatch and on its delete row, and the commands
\* that may or may not touch the list (palette, camera scroll, clear, load)
PtSwatch == <<20, 20>>
PtDelete == <<20, 40>>

TickStore ==
    LET StoreKeys ==
            {[NoKeys EXCEPT !.just = {"2"}, !.first = "2"], Held("Right"), Just("C"),
             LoadKey("ok", File1)}
    IN  \E in \in {Input(PtA, FALSE, r, NoKeys) : r \in BOOLEAN}
            \cup {Input(pt, TRUE, FALSE, NoKeys) : pt \in {PtSwatch, PtDelete}}
            \cup {Input(PtA, FALSE, FALSE, k) : k \in StoreKeys} :
        Update(in)

SpecStore == Init /\ [][TickStore]_vars

\* what stays of a track: the popup opened at PtA with a left-press on its
\* first swatch and on its delete row, and a tick that presses the palette
\* key 2 and the gauge key + while the right arrow is held
TickKeep ==
    \E in \in {Input(PtA, FALSE, r, NoKeys) : r \in BOOLEAN}
            \cup {Input(pt, TRUE, FALSE, NoKeys) : pt \in {PtSwatch, PtDelete}}
            \cup {Input(PtA, FALSE, FALSE,
                        [NoKeys EXCEPT !.just = {"2", "Equal"}, !.first = "2",
                                       !.held = {"Right"}])} :
        Update(in)

SpecKeep == Init /\ [][TickKeep]_vars

\* the gauge: + and - over its whole range, alone and together
TickGauge ==
    LET GaugeKeys ==
            {NoKeys, Just("Equal"), Just("Minus"),
             [NoKeys EXCEPT !.just = {"Equal", "Minus"}]}
    IN  \E in \in {Input(PtA, FALSE, FALSE, k) : k \in GaugeKeys} :
        UpdateWithin(in, FALSE)

SpecGauge == Init /\ [][TickGauge]_vars

\* the palette keys, alone and two in one tick, with every key the map
\* iteration may meet first, while tracks are drawn
PaletteSets == {{}, {"1"}, {"2"}, {"1", "2"}, {"3", "4"}}

PaletteChoices ==
    {[NoKeys EXCEPT !.just = s, !.first = f] :
        s \in PaletteSets, f \in {"none", "1", "2", "3", "4"}}
    \cap {k \in [held : {{}}, just : PaletteSets,
                  first : {"none", "1", "2", "3", "4"}, saveRes : {"none"},
                  loadRes : {"none"}, loadData : {<<>>}] :
             k.first \in FirstChoices(k.just)}

TickPalette ==
    \E in \in InputsOver({PtA, PtD}, {FALSE}, PaletteChoices) :
        Update(in)

SpecPalette == Init /\ [][TickPalette]_vars

\* the coordinate conversions: the camera scrolled with the arrow keys, world
\* points near the origin, at the camera offset and around 2^24 pixels away,
\* screen points in and around the window
TickView ==
    LET ViewKeys == {Held("Left"), Held("Right"), Held("Up"), Held("Down")}
    IN  \E in \in {Input(PtA, FALSE, FALSE, k) : k \in ViewKeys} :
        Update(in)

DrawView ==
    LET WorldPoints ==
            {<<0, 0>>, <<10, 10>>, <<10, 0 - 10>>, <<0 - 7, 300>>, <<1024, 768>>,
             <<float32Exact, 0>>, <<float32Exact + 1, 5>>, <<float32Exact + 3, 5>>,
             <<float32Exact + cameraScrollSpeed, 0>>,
             <<0 - float32Exact - 1, float32Exact>>,
             <<3, float32Exact + cameraScrollSpeed + 1>>}
    IN  \E p \in WorldPoints : CallWorldToScreen(p)

CursorView ==
    LET ScreenPoints == {<<0, 0>>, PtA, <<1023, 767>>, <<0 - 5, 800>>}
    IN  \E s \in ScreenPoints : CallScreenToWorld(s)

NextView == TickView \/ DrawView \/ CursorView

SpecView == Init /\ [][NextView]_vars

\* lengths: drags along an axis, along a 3-4-5 triangle and along a diagonal
\* of irrational length, and the length of a drag of 10000 pixels
PtB == <<13, 14>>

TickLength ==
    \E in \in InputsOver({PtA, PtA1, PtB, PtD}, {FALSE}, {NoKeys}) :
        Update(in)

MeasureLength ==
    LET FarDrags == {<<<<0, 0>>, <<10000, 0>>>>, <<<<10000, 0>>, <<0, 0>>>>,
                 <<<<0, 0>>, <<0, 0>>>>, <<<<0 - 3000, 0>>, <<0, 4000>>>>}
    IN  \E d \in FarDrags : CallCalculateLength(d[1], d[2])

NextLength == TickLength \/ MeasureLength

SpecLength == Init /\ [][NextLength]_vars

\* a file whose elements carry the ids 3, 7 and 2 next to the members of a
\* Track, loaded, drawn over and cleared
TickIds ==
    LET FileWithIds ==
            <<[id |-> 3] @@ EncodeTrack(FileTrack1),
              [id |-> 7] @@ EncodeTrack(FileTrack2),
              [id |-> 2] @@ EncodeTrack(FileTrack3)>>
        IdKeys == {NoKeys, Just("C"), LoadKey("ok", DecodeTracks(FileWithIds))}
    IN  \E in \in InputsOver({PtA, PtD}, BOOLEAN, IdKeys) :
        Update(in)

SpecIds == Init /\ [][TickIds]_vars

\* hit testing over files: the tracks of SpecHit and tracks whose thickness a
\* file sets below zero, alone, above a track of the same place, and so far
\* below zero that hitThreshold + Thickness/2 is negative
FileTrackThin ==
    [X1 |-> 10, Y1 |-> 10, X2 |-> 10, Y2 |-> 40, Color |-> Yellow,
     Thickness |-> 0 - 4, LengthMeters |-> 3000]

FileThinAbove == <<FileTrack3, FileTrackThin>>

ReachKeys ==
    LET FileThin == <<FileTrackThin>>
        FileTrackNever ==
            [X1 |-> 5, Y1 |-> 40, X2 |-> 40, Y2 |-> 40, Color |-> Red,
             Thickness |-> 0 - 20, LengthMeters |-> 3500]
        FileNever == <<FileTrackNever>>
    IN  HitKeys \cup {LoadKey("ok", FileThin), LoadKey("ok", FileThinAbove),
                  LoadKey("ok", FileNever)}

TickReach ==
    \E in \in {Input(pt, FALSE, r, k) :
            pt \in {PtH7, PtH8, PtD, PtTie}, r \in BOOLEAN, k \in ReachKeys} :
        Update(in)

SpecReach == Init /\ [][TickReach]_vars

\* pointSegmentDistance on its own: points on, beside and beyond a
\* horizontal segment, the same segment reversed, a segment of zero length,
\* a slanted segment and the vertical track of the files
MeasureSegment ==
    LET SegmentCases ==
            {<<<<p, q>>, <<0, 0>>, <<25, 0>>>> : p \in 0..30, q \in {0}}
            \cup {<<<<p, 1>>, <<0, 0>>, <<25, 0>>>> : p \in {0, 7, 25, 30}}
            \cup {<<<<p, 0>>, <<30, 0>>, <<0, 0>>>> : p \in {0, 2, 7, 15, 28, 30, 33}}
            \cup {<<pt, <<5, 5>>, <<5, 5>>>> : pt \in {<<5, 5>>, <<8, 9>>}}
            \cup {<<<<p, q>>, <<1, 2>>, <<10, 14>>>> :
                    p \in {0, 1, 4, 7, 10, 12}, q \in {0, 2, 6, 10, 14, 16}}
            \cup {<<pt, <<10, 10>>, <<10, 40>>>> :
                    pt \in {<<10, 10>>, <<10, 17>>, <<10, 40>>, <<10, 45>>, PtH7, PtH8}}
    IN  \E c \in SegmentCases, fused \in BOOLEAN :
        CallPointSegmentDistance(c[1], c[2], c[3], fused)

SpecSegment == Init /\ [][MeasureSegment]_vars

\* the save dialog: paths with and without the extension, in every letter
\* case, with near misses of it and with the extension twice
SaveDialog ==
    LET Paths ==
            LET stems == {<<>>, <<"a">>, <<"A", ".", "j", "s", "o", "n">>}
                ends ==
                    {<<c1, c2, c3, c4, c5>> :
                        c1 \in {".", "a"}, c2 \in {"j", "J"}, c3 \in {"s", "S"},
                        c4 \in {"o", "O", "0"}, c5 \in {"n", "N"}}
                    \cup {<<"a">>, <<"j", "s", "o", "n">>, <<".", "j", "s">>, <<".">>,
                          <<".", "j", "s", "o", "n", "a">>}
            IN  {stem \o end : stem \in stems, end \in ends}
    IN  \E p \in Paths : CallSavePath(p)

SpecPath == Init /\ [][SaveDialog]_vars

\* the frame loop: an update pass, a render pass with the cursor anywhere,
\* and the host's layout call
TickFrame ==
    LET FrameKeys == {NoKeys, LoadKey("ok", File2), LoadKey("ok", File1)}
    IN  \E in \in InputsOver({PtD}, BOOLEAN, FrameKeys) :
        Update(in)

DrawFrames == \E pt \in {PtA, PtD} : Draw(pt[1], pt[2])

NextFrame == TickFrame \/ DrawFrames \/ Resize

SpecFrame == Init /\ [][NextFrame]_vars

\* indices that outlive their list: the popup machine with loads of a longer
\* and a shorter file, a click on a swatch, and a render pass after any tick
TickStale ==
    \E in \in {Input(PtA, FALSE, FALSE, k) :
                  k \in {NoKeys, LoadKey("ok", File2r), LoadKey("ok", File1)}}
               \cup {Input(PtA, FALSE, TRUE, NoKeys)}
               \cup {Input(pt, TRUE, FALSE, NoKeys) :
                       pt \in {PtSwatch, PtDelete}} :
        Update(in)

DrawStale == Draw(PtA[1], PtA[2])

NextStale == TickStale \/ DrawStale

SpecStale == Init /\ [][NextStale]_vars

\* ================================================================== claims
\* what the properties below read off a step
IsUpdate == last.op = "Update"

\* the world point under the cursor of the step being taken, from the camera
\* as it is when Update starts
WorldX == last'.cx + cameraOffsetX
WorldY == last'.cy + cameraOffsetY

\* the tick being taken carries neither the clear key nor a successful load
NoClearNoLoad == "C" \notin last'.just /\ last'.loadRes # "ok"

\* the options whose drawn rectangle holds the click of the step being taken
ClickedOptions ==
    {j \in 1..Len(popupOptions) :
        PtIn(last'.cx, last'.cy, OptionDrawRect(Game, popupOptions[j]))}

Neutral ==
    /\ ~popupVisible
    /\ selectedTrackIndex = -1
    /\ hoveredTrackIndex = -1
    /\ ~drawing

\* C1: the drawing flag and popupVisible are never both true.
C1_NotDrawingAndPopup == ~(drawing /\ popupVisible)

\* C2: a click on the popup's delete option removes exactly the track that
\* was right-clicked to open the popup, and the track count drops by one,
\* whatever happened between opening the popup and the click.
C2_DeleteRemovesClicked ==
    [][(last'.op = "Update" /\ popupVisible /\ last'.lp /\ NoClearNoLoad
        /\ \E j \in ClickedOptions : popupOptions[j].kind = "delete")
       => /\ Len(tracks') = Len(tracks) - 1
          /\ \E i \in 1..Len(tracks) :
                tracks[i] = popupTrack /\ tracks' = RemoveAt(tracks, i)]_vars

\* C3: a tick that observes the release of the left button while a drawing is
\* in progress ends the drawing, whatever else arrives in that tick and
\* whether or not a popup is open.
C3_ReleaseEndsDrawing ==
    [][(last'.op = "Update" /\ drawing /\ last'.lr) => ~drawing']_vars

\* C4: a left-release that ends a drawing appends exactly one track iff the
\* start point and the world cursor at the release are more than 1 apart;
\* the track runs from the start to the release point and carries the
\* currentColor and thickness of the moment the release is processed (the
\* tick's own palette and gauge keys come later); otherwise the list is
\* unchanged.  Update returns nil.
C4_ReleaseCommits ==
    [][(last'.op = "Update" /\ drawing /\ last'.lr /\ ~drawing'
        /\ NoClearNoLoad)
       => /\ ~IsNaN(startX) /\ ~IsNaN(startY)
          /\ last'.ret = "nil"
          /\ IF Sq(WorldX - startX.v) + Sq(WorldY - startY.v) > 1
             THEN /\ Len(tracks') = Len(tracks) + 1
                  /\ SubSeq(tracks', 1, Len(tracks)) = tracks
                  /\ tracks'[Len(tracks')].X1 = startX.v
                  /\ tracks'[Len(tracks')].Y1 = startY.v
                  /\ tracks'[Len(tracks')].X2 = WorldX
                  /\ tracks'[Len(tracks')].Y2 = WorldY
                  /\ tracks'[Len(tracks')].Color = currentColor
                  /\ tracks'[Len(tracks')].Thickness = thickness
             ELSE tracks' = tracks]_vars

\* C4 witness: a release one gauge step and one palette key after the start
\* committed a blue track of thickness 6
C4_Witness ==
    /\ IsUpdate /\ last.lr /\ last.drawEnd = "commit"
    /\ Len(tracks) = 1
    /\ tracks[1].Color = Blue
    /\ tracks[1].Thickness = initialThickness + 1

\* C5 as stated: with the popup open, a right-press anywhere closes the popup
\* and no popup is open after that tick.
C5_RightPressCloses ==
    [][(last'.op = "Update" /\ popupVisible /\ last'.rp)
       => (~popupVisible' /\ selectedTrackIndex' = -1)]_vars

\* C5 amended: with the popup open, a right-press outside every option
\* rectangle closes the popup and none is re-opened in that tick; a
\* right-press inside an option rectangle is not consumed by the popup:
\* unless a left-press or the clear key comes with it, it is handled as with
\* no popup open, so the popup is re-opened at the cursor for the track the
\* world cursor hits, and closed when it hits none.
C5_RightPressOutsideCloses ==
    [][(last'.op = "Update" /\ popupVisible /\ last'.rp)
       => IF \/ ClickedOptions = {}
             \/ last'.lp
             \/ "C" \in last'.just
             \/ findClosestTrack(tracks, WorldX, WorldY) = -1
          THEN ~popupVisible' /\ selectedTrackIndex' = -1
          ELSE /\ popupVisible'
               /\ selectedTrackIndex' = findClosestTrack(tracks, WorldX, WorldY)
               /\ popupX' = last'.cx
               /\ popupY' = last'.cy]_vars

\* C5 witness: a right-press inside an option rectangle, with a track under
\* the cursor, left the popup open, anchored at the cursor
C5_Witness ==
    /\ IsUpdate /\ last.rp /\ ~last.lp /\ last.popupWas /\ last.just = {}
    /\ popupVisible
    /\ selectedTrackIndex = 1
    /\ popupX = PtD[1]
    /\ popupY = PtD[2]

\* C6: with the popup open, a left-press inside an option's drawn rectangle
\* runs that option's action and no other (the recolouring or removal of the
\* track at the index the option holds, nothing when that index is no longer
\* in the list), closes the popup and starts no drawing; a left-press outside
\* every option closes the popup, changes no track and starts no drawing.
C6_LeftPressInPopup ==
    [][(last'.op = "Update" /\ popupVisible /\ last'.lp /\ NoClearNoLoad)
       => /\ ~popupVisible'
          /\ selectedTrackIndex' = -1
          /\ drawing' = drawing
          /\ startX' = startX
          /\ startY' = startY
          /\ Cardinality(ClickedOptions) <= 1
          /\ ClickedOptions = {} => tracks' = tracks
          /\ \A j \in ClickedOptions :
                LET i == popupOptions[j].optIndex + 1
                IN  IF i \notin 1..Len(tracks)
                    THEN tracks' = tracks
                    ELSE IF popupOptions[j].kind = "delete"
                    THEN tracks' = RemoveAt(tracks, i)
                    ELSE tracks' = [tracks EXCEPT
                                      ![i].Color = colorPalette[colorKeys[j]]]]_vars

\* C6 witness: a left-press on the first swatch recoloured the second track
C6_Witness ==
    /\ IsUpdate /\ last.lp /\ last.popupWas /\ last.optRun = 1
    /\ ~popupVisible
    /\ ~drawing
    /\ Len(tracks) = 2
    /\ tracks[2].Color = Red

\* C7: with no popup open, a right-press whose world cursor hits a track
\* selects that track, anchors the popup at the screen cursor, regenerates
\* the options for that track and shows the popup; a right-press on empty
\* space leaves the popup closed, nothing selected and the tracks as they
\* are.  (The tick carries no left-press and no clear key, which close the
\* popup again; the empty-space case no release and no load either.)
C7_RightPressOpens ==
    [][(last'.op = "Update" /\ ~popupVisible /\ last'.rp /\ ~last'.lp
        /\ "C" \notin last'.just)
       => IF findClosestTrack(tracks, WorldX, WorldY) # -1
          THEN /\ popupVisible'
               /\ selectedTrackIndex' = findClosestTrack(tracks, WorldX, WorldY)
               /\ popupX' = last'.cx
               /\ popupY' = last'.cy
               /\ Len(popupOptions') = Len(colorKeys) + 1
               /\ \A j \in 1..Len(popupOptions') :
                     popupOptions'[j].optIndex = selectedTrackIndex'
               /\ popupOptions'[1].Rect.MinX = last'.cx + popupPadding
               /\ popupOptions'[1].Rect.MinY = last'.cy + popupPadding
          ELSE /\ ~popupVisible'
               /\ selectedTrackIndex' = -1
               /\ (~last'.lr /\ last'.loadRes # "ok") => tracks' = tracks]_vars

\* C7 witness: a right-press opened the popup on the second of two tracks
C7_Witness ==
    /\ IsUpdate /\ last.rp /\ ~last.popupWas
    /\ popupVisible
    /\ selectedTrackIndex = 1
    /\ Len(popupOptions) = 5
    /\ popupX = PtD[1]
    /\ popupY = PtD[2]

\* C8: after a successful load the track list is the loaded list, the camera
\* offset is (0, 0) and the interaction state is neutral.
C8_LoadResets ==
    (IsUpdate /\ last.loadRes = "ok")
    => /\ tracks = last.loadData
       /\ cameraOffsetX = 0
       /\ cameraOffsetY = 0
       /\ Neutral

\* C9: after the clear-all key the track list is empty, the camera offset is
\* (0, 0), the popup is closed, nothing is selected or hovered and no drawing
\* is in progress.
C9_ClearResets ==
    (IsUpdate /\ "C" \in last.just /\ last.loadRes # "ok")
    => /\ tracks = <<>>
       /\ cameraOffsetX = 0
       /\ cameraOffsetY = 0
       /\ Neutral

\* C10: a load that fails to decode leaves the tracks, the camera and the
\* interaction state as they were when loadTracks was called.
C10_FailedLoadKeeps ==
    (IsUpdate /\ last.loadRes = "decodeError") => Game = last.pre

\* C10 witness: a decode failure with tracks in the list, the camera scrolled
\* and a popup open
C10_Witness ==
    /\ IsUpdate /\ last.loadRes = "decodeError"
    /\ Len(tracks) = 2
    /\ cameraOffsetX # 0
    /\ popupVisible

\* C11: Escape pressed while the popup is visible closes the popup, and
\* Update does not signal termination in that tick.
C11_EscapeClosesPopup ==
    (IsUpdate /\ "Escape" \in last.just /\ last.popupWas)
    => (~popupVisible /\ last.ret = "nil")

\* C12 as stated: at the end of every tick in which a drawing is in progress
\* or the popup is open, no track is identified as hovered.
C12_NoHoverOutsideIdle ==
    (drawing \/ popupVisible) => hoveredTrackIndex = -1

\* C12 amended: at the end of every tick in which the popup is open no track
\* is identified as hovered; while a drawing is in progress the hover check
\* still runs and may identify the track under the cursor, but Draw shows no
\* tooltip while a drawing is in progress or the popup is open.
C12_HoverHiddenOutsideIdle ==
    /\ popupVisible => hoveredTrackIndex = -1
    /\ (drawing \/ popupVisible) => ~TooltipShown(Game)

\* C12 witness: a drawing in progress with the cursor over the first of two
\* tracks: the track is identified, no tooltip is drawn
C12_Witness ==
    /\ IsUpdate /\ drawing /\ ~last.lp
    /\ Len(tracks) = 2
    /\ hoveredTrackIndex = 0
    /\ ~TooltipShown(Game)

\* C13: a left-press on an existing track (a hit per findClosestTrack) with
\* no popup open and no drawing in progress starts moving that track rather
\* than a drawing.
C13_PressOnTrackMoves ==
    [][(last'.op = "Update" /\ ~popupVisible /\ ~drawing /\ last'.lp
        /\ ~last'.rp
        /\ findClosestTrack(tracks, WorldX, WorldY) # -1)
       => ~drawing']_vars

\* the squared distance from the world cursor of the step being taken to
\* track i
CursorDist(i) ==
    pointSegmentDistance(WorldX, WorldY, tracks[i].X1, tracks[i].Y1,
                         tracks[i].X2, tracks[i].Y2)

\* C14: on a single-track list, a query point at centerline distance d from
\* a track of thickness T selects the track iff the edge distance d - T/2 is
\* strictly less than the threshold 8, i.e. iff (2d)^2 < (16 + T)^2.
C14_HitFromEdge ==
    [][(last'.op = "Update" /\ ~popupVisible /\ last'.rp /\ Len(tracks) = 1)
       => ((selectedTrackIndex' = 0)
           <=> 4 * CursorDist(1).n
                  < Sq(2 * hitThreshold + tracks[1].Thickness)
                    * CursorDist(1).d)]_vars

\* the tracks nearest to the world cursor of the step being taken, among
\* those closer than the threshold
Nearest ==
    {i \in 1..Len(tracks) :
        /\ FracLess(CursorDist(i), Frac(hitThreshold * hitThreshold, 1))
        /\ \A k \in 1..Len(tracks) : ~FracLess(CursorDist(k), CursorDist(i))}

\* C15: when two or more tracks are at exactly the same distance from the
\* query point, nearest to it and within the threshold, findClosestTrack
\* returns the one with the highest index.
C15_TopmostWinsTie ==
    [][(last'.op = "Update" /\ ~popupVisible /\ last'.rp
        /\ Cardinality(Nearest) >= 2)
       => /\ selectedTrackIndex' + 1 \in Nearest
          /\ \A i \in Nearest : i <= selectedTrackIndex' + 1]_vars

\* C15 witness: a right-press at distance 4 from both tracks of the reversed
\* file selected the second one
C15_Witness ==
    /\ IsUpdate /\ last.rp /\ ~last.popupWas /\ last.just = {}
    /\ last.cx = PtTie[1]
    /\ last.cy = PtTie[2]
    /\ tracks = File2r
    /\ selectedTrackIndex = 1

\* C16: every open popup holds exactly paletteSize + 1 = 5 options: one
\* swatch per palette colour in the key order 1, 2, 3, 4, followed by exactly
\* one delete option.
C16_PopupOptions ==
    popupVisible
    => /\ Len(popupOptions) = 5
       /\ \A j \in 1..4 :
             /\ popupOptions[j].kind = "color"
             /\ popupOptions[j].Label = ""
       /\ popupOptions[1].Color = Red
       /\ popupOptions[2].Color = Blue
       /\ popupOptions[3].Color = Yellow
       /\ popupOptions[4].Color = Green
       /\ popupOptions[5].kind = "delete"
       /\ popupOptions[5].Label = "Apagar"

\* C16 witness: a right-press has just opened the popup on a track
C16_Witness ==
    /\ IsUpdate /\ last.rp /\ ~last.popupWas
    /\ popupVisible
    /\ Len(popupOptions) = 5
    /\ popupOptions[3].Color = Yellow

\* the drawn popup rectangle: top-left from calculatePopupDrawPosition, width
\* popupWidth, height = lowest option bottom - anchor y + padding
LowestBottom ==
    CHOOSE m \in {popupOptions[j].Rect.MaxY : j \in 1..Len(popupOptions)} :
        \A j \in 1..Len(popupOptions) : popupOptions[j].Rect.MaxY <= m

DrawnPopup ==
    LET pos == calculatePopupDrawPosition(Game)
    IN  Rect(pos[1], pos[2], pos[1] + popupWidth,
             pos[2] + (LowestBottom - popupY) + popupPadding)

C18_RoundTrip ==
    (IsUpdate /\ last.fromSaved /\ last.loadRes = "ok"
     /\ Len(savedTracks) > 0)
    => /\ Len(tracks) = Len(savedTracks)
       /\ \A i \in 1..Len(savedTracks) :
             /\ tracks[i].X1 = savedTracks[i].X1
             /\ tracks[i].Y1 = savedTracks[i].Y1
             /\ tracks[i].X2 = savedTracks[i].X2
             /\ tracks[i].Y2 = savedTracks[i].Y2
             /\ tracks[i].Color = savedTracks[i].Color
             /\ tracks[i].Thickness = savedTracks[i].Thickness
             /\ tracks[i].LengthMeters = savedTracks[i].LengthMeters
       /\ tracks = savedTracks

\* C18 witness: two tracks of different colour and direction came back from the
\* saved file
C18_Witness ==
    /\ IsUpdate /\ last.fromSaved /\ last.loadRes = "ok"
    /\ Len(savedTracks) = 2
    /\ tracks[1].Color = Red
    /\ tracks[2].Color = Blue
    /\ tracks[2].Thickness = initialThickness
    /\ tracks[1].Y1 # tracks[2].Y1
    /\ tracks[2].LengthMeters = 3000

\* the step being taken clicks the popup's delete option
DeleteClicked ==
    /\ popupVisible
    /\ last'.lp
    /\ \E j \in ClickedOptions : popupOptions[j].kind = "delete"

\* the elements after the step are those before it, in the same places;
\* only a colour may differ
SameElements ==
    /\ Len(tracks') = Len(tracks)
    /\ \A i \in 1..Len(tracks) : [tracks'[i] EXCEPT !.Color = tracks[i].Color] = tracks[i]

\* what a tick without a successful load does to the list
StoreStep ==
    IF "C" \in last'.just THEN tracks' = <<>>
    ELSE IF last'.drawEnd = "commit"
    THEN /\ Len(tracks') = Len(tracks) + 1
         /\ SubSeq(tracks', 1, Len(tracks)) = tracks
    ELSE IF DeleteClicked
    THEN \/ /\ Len(tracks') = Len(tracks) - 1
            /\ \E i \in 1..Len(tracks) : tracks' = RemoveAt(tracks, i)
         \/ /\ selectedTrackIndex + 1 \notin 1..Len(tracks)
            /\ tracks' = tracks
    ELSE SameElements

\* a save of the state the step ends in writes its file and keeps the list
SaveKeepsList ==
    \A res \in {"ok", "cancelled", "emptyPath", "createError"} :
        SavePhase(Game', {"S"}, res).tracks = tracks'

\* C19 as stated: elements are created only by a draw-release commit (exactly
\* one, appended last) and destroyed only by a popup delete (exactly one) or
\* the clear command (all); no other tick, a load included, adds or removes
\* an element.
C19_OnlyCommitDeleteClear == [][last'.op = "Update" => StoreStep]_vars

\* C19 amended: a successful load replaces the whole list by the decoded one,
\* whatever else the tick did; without one, clear empties the list, a
\* draw-release commit appends exactly one element last, a click on the
\* popup's delete option removes exactly one element (none when the captured
\* index is no longer in the list), and every other tick (left-press,
\* right-press, swatch click, camera scroll, palette keys) keeps the
\* elements, a swatch click changing only a colour; a save applied to the
\* state the tick ends in keeps the list as it is.
C19_StoreChanges ==
    [][last'.op = "Update"
       => /\ IF "L" \in last'.just /\ last'.loadRes = "ok"
             THEN tracks' = last'.loadData
             ELSE StoreStep
          /\ SaveKeepsList]_vars

\* C19 witness: a commit appended a second element behind a loaded one
C19_Witness ==
    /\ IsUpdate /\ last.lr /\ last.drawEnd = "commit"
    /\ Len(tracks) = 2
    /\ tracks[1] = FileTrack1
    /\ tracks[2].X1 = PtSwatch[1]
    /\ tracks[2].Y1 = PtSwatch[2]
    /\ tracks[2].X2 = PtA[1]
    /\ tracks[2].Y2 = PtA[2]

\* the outcomes of a save or load that never gets a file: the dialog was
\* cancelled, returned an empty path, or the file could not be created/opened
NoFileRes == CancelRes \cup {"createError", "openError"}

\* C20: a save or load whose dialog is cancelled or returns an empty path, or
\* whose file cannot be created/opened, leaves the in-memory state as it was
\* before the call: tracks, camera offset, selection, popup and drawing state
\* (and every other field) are unchanged; saveTracks and loadTracks return
\* nil on a cancellation.
C20_NoFileIsNoOp ==
    /\ (IsUpdate /\ (last.saveRes \in NoFileRes \/ last.loadRes \in NoFileRes))
       => /\ tracks = last.pre.tracks
          /\ cameraOffsetX = last.pre.cameraOffsetX
          /\ cameraOffsetY = last.pre.cameraOffsetY
          /\ selectedTrackIndex = last.pre.selectedTrackIndex
          /\ popupVisible = last.pre.popupVisible
          /\ popupOptions = last.pre.popupOptions
          /\ drawing = last.pre.drawing
          /\ startX = last.pre.startX
          /\ startY = last.pre.startY
          /\ Game = last.pre
    /\ \A res \in NoFileRes :
          /\ saveTracks(Game, res).g = Game
          /\ loadTracks(Game, res, File2).g = Game
    /\ \A res \in CancelRes :
          /\ saveTracks(Game, res).err = "nil"
          /\ loadTracks(Game, res, File2).err = "nil"

\* C20 witness: a load whose file could not be opened, with two tracks, the
\* camera scrolled and the popup open
C20_Witness ==
    /\ IsUpdate /\ last.loadRes = "openError"
    /\ Len(tracks) = 2
    /\ cameraOffsetX # 0
    /\ popupVisible
    /\ selectedTrackIndex # -1

\* C21: thickness is in [1, 50] in every reachable state; a + press at 50
\* leaves it at 50, a - press at 1 leaves it at 1, and otherwise each press
\* changes it by exactly 1 (+ first, then -, when both arrive in one tick).
C21_GaugeClamped ==
    /\ [](thickness \in 1..50)
    /\ [][last'.op = "Update"
          => LET up == IF "Equal" \in last'.just
                       THEN (IF thickness = 50 THEN 50 ELSE thickness + 1)
                       ELSE thickness
                 down == IF "Minus" \in last'.just
                         THEN (IF up = 1 THEN 1 ELSE up - 1)
                         ELSE up
             IN  /\ thickness' = down
                 /\ thickness' \in 1..50]_vars

\* C21 witness: a + press alone with the gauge at its ceiling
C21_Witness ==
    /\ IsUpdate
    /\ last.just = {"Equal"}
    /\ thickness = 50

\* the colours a tick with the palette keys of the set just pressed may leave
\* in currentColor (the state it starts in has no part in it)
PaletteOutcomes(just) ==
    {CommandPhase(Game, {}, just, f).currentColor : f \in FirstChoices(just)}

\* C22: when two or more palette keys are just-pressed in the same tick, the
\* resulting currentColor is a function of the prior state and the set of
\* pressed keys only: the colour such a tick ends with is the only colour
\* that set of keys can produce.
C22_PaletteDeterministic ==
    (IsUpdate /\ Cardinality(last.just \cap DOMAIN colorPalette) >= 2)
    => PaletteOutcomes(last.just) = {currentColor}

\* the distance of a number from 0
Magnitude(x) == IF x < 0 THEN 0 - x ELSE x

\* C23 as stated: for every camera offset, screenToWorld(worldToScreen(p)) = p
\* for every integer-valued world point p, and
\* worldToScreen(screenToWorld(s)) = s for every screen point s.
C23_TransformInverse == view.fn # "none" => view.back = view.arg

\* C23 amended: worldToScreen(screenToWorld(s)) = s for every screen point s
\* of at most 2^24 pixels in magnitude; screenToWorld(worldToScreen(p)) = p
\* for every integer world point p at most 2^24 pixels from the camera
\* offset on each axis, where the float32 worldToScreen returns is exact;
\* farther away the result is off by at most the distance divided by 2^24.
C23_InverseWithinFloat32 ==
    /\ view.fn = "screenToWorld" => view.back = view.arg
    /\ view.fn = "worldToScreen"
       => \A k \in 1..2 :
             LET far == Magnitude(view.arg[k] - view.cam[k])
                 off == Magnitude(view.back[k] - view.arg[k])
             IN  /\ far <= float32Exact => off = 0
                 /\ off * float32Exact <= far

\* C23 witness: a world point exactly 2^24 pixels right of a scrolled camera
\* came back unchanged
C23_Witness ==
    /\ view.fn = "worldToScreen"
    /\ view.cam[1] = cameraScrollSpeed
    /\ view.arg[1] - view.cam[1] = float32Exact
    /\ view.back = view.arg

\* C24: worldToScreen maps a world coordinate to
\* (w - offset) * zoom + screenSize/2 on each axis (the Game has no zoom
\* field: zoom 1); in particular the world point equal to the camera offset
\* is mapped to the centre of the viewport.
C24_WorldToScreenCentred ==
    view.fn = "worldToScreen"
    => /\ view.res[1] = (view.arg[1] - view.cam[1]) * 1 + screenWidth \div 2
       /\ view.res[2] = (view.arg[2] - view.cam[2]) * 1 + screenHeight \div 2
       /\ view.arg = view.cam
          => view.res = <<screenWidth \div 2, screenHeight \div 2>>

\* the squared distance between two world points
DistSq(x1, y1, x2, y2) == Sq(x2 - x1) + Sq(y2 - y1)

\* len is 100 times the distance of the squared value dsq, to the whole meter
IsLengthOf(len, dsq) ==
    LET d == ISqrt(dsq)
    IN  IF d * d = dsq THEN len = 100 * d
        ELSE /\ len >= 100 * d
             /\ len < 100 * (d + 1)
             /\ Sq(len) <= 10000 * dsq
             /\ Sq(len + 1) > 10000 * dsq

\* C25: a committed track's stored length in meters is the Euclidean distance
\* between its endpoints divided by pixelsPerMeter = 0.01, i.e. 100 times
\* the world distance (to the whole meter); a drag from world (0,0) to world
\* (10000,0) yields length 1,000,000.
C25_LengthIsDistanceTimes100 ==
    /\ \A i \in 1..Len(tracks) :
          IsLengthOf(tracks[i].LengthMeters,
                     DistSq(tracks[i].X1, tracks[i].Y1,
                            tracks[i].X2, tracks[i].Y2))
    /\ view.fn = "calculateLengthMeters"
       => /\ LET d == view.arg
             IN  IsLengthOf(view.res, DistSq(d[1][1], d[1][2], d[2][1], d[2][2]))
          /\ view.arg = <<<<0, 0>>, <<10000, 0>>>> => view.res = 1000000

\* C25 witness: a committed 3-4-5 drag of length 500 and the drag from (0,0)
\* to (10000,0) measured
C25_Witness ==
    /\ Len(tracks) = 2
    /\ tracks[1].X1 = PtA[1] /\ tracks[1].Y1 = PtA[2]
    /\ tracks[1].X2 = PtB[1] /\ tracks[1].Y2 = PtB[2]
    /\ tracks[1].LengthMeters = 500
    /\ tracks[2].LengthMeters = 3001
    /\ view.fn = "calculateLengthMeters"
    /\ view.arg = <<<<0, 0>>, <<10000, 0>>>>
    /\ view.res = 1000000

\* C26: every element carries an id that is unique across the live collection
\* and >= 1 (and the allocator's next id is greater than every existing id:
\* after loading elements with the ids 3, 7 and 2 the next element gets 8).
C26_UniqueIds ==
    \A i \in 1..Len(tracks) :
        /\ "id" \in DOMAIN tracks[i]
        /\ tracks[i].id >= 1
        /\ \A j \in 1..Len(tracks) : j # i => tracks[j].id # tracks[i].id

\* track i is strictly within the threshold of the world cursor of the step
\* being taken
WithinThreshold(i) == FracLess(CursorDist(i), Frac(64, 1))

\* track i is within reach: strictly within the threshold and strictly within
\* hitThreshold + Thickness/2
WithinReach(i) ==
    /\ WithinThreshold(i)
    /\ 16 + tracks[i].Thickness > 0
    /\ 4 * CursorDist(i).n < Sq(16 + tracks[i].Thickness) * CursorDist(i).d

\* C27 as stated: findClosestTrack returns an index in [0, len(tracks)-1]
\* whose distance to the query point is minimal among all tracks and strictly
\* below hitThreshold, and -1 iff no track is strictly within the threshold.
C27_ClosestWithinThreshold ==
    [][(last'.op = "Update" /\ ~popupVisible /\ last'.rp)
       => LET r == selectedTrackIndex' + 1
          IN  /\ r \in 0..Len(tracks)
              /\ r # 0 => /\ WithinThreshold(r)
                          /\ \A k \in 1..Len(tracks) :
                                ~FracLess(CursorDist(k), CursorDist(r))
              /\ r = 0 <=> \A k \in 1..Len(tracks) : ~WithinThreshold(k)]_vars

\* C27 amended: findClosestTrack returns an index in [0, len(tracks)-1] of a
\* track within reach whose distance is minimal among the tracks within
\* reach, and -1 iff no track is within reach (in particular on an empty
\* list); for a track of thickness >= 0 within reach means strictly within
\* the threshold.
C27_ClosestWithinReach ==
    [][(last'.op = "Update" /\ ~popupVisible /\ last'.rp)
       => LET r == selectedTrackIndex' + 1
          IN  /\ r \in 0..Len(tracks)
              /\ r # 0 => /\ WithinReach(r)
                          /\ \A k \in 1..Len(tracks) :
                                WithinReach(k)
                                => ~FracLess(CursorDist(k), CursorDist(r))
              /\ r = 0 <=> \A k \in 1..Len(tracks) : ~WithinReach(k)
              /\ \A k \in 1..Len(tracks) :
                    tracks[k].Thickness >= 0
                    => (WithinReach(k) <=> WithinThreshold(k))]_vars

\* C27 witness: a right-press at distance 7 from two tracks of the same
\* place selected the lower one, the upper one having thickness -4
C27_Witness ==
    /\ IsUpdate /\ last.rp /\ ~last.popupWas /\ last.just = {}
    /\ last.cx = PtH7[1]
    /\ last.cy = PtH7[2]
    /\ tracks = FileThinAbove
    /\ selectedTrackIndex = 0

\* C28: clicking a colour swatch in the popup sets the colour of the selected
\* (right-clicked) element to that swatch's palette colour and changes nothing
\* else: the element count and order, every other element, the selected
\* element's endpoints, thickness and length, the default currentColor and
\* the camera are all unchanged.  (A tick without keys.)
C28_SwatchRecoloursSelected ==
    [][(last'.op = "Update" /\ popupVisible /\ last'.lp /\ last'.just = {}
        /\ \E j \in ClickedOptions : popupOptions[j].kind = "color")
       => LET i == selectedTrackIndex + 1
          IN  /\ i \in 1..Len(tracks)
              /\ tracks[i] = popupTrack
              /\ \A j \in ClickedOptions :
                    tracks' = [tracks EXCEPT
                                 ![i].Color = colorPalette[colorKeys[j]]]
              /\ currentColor' = currentColor
              /\ cameraOffsetX' = cameraOffsetX
              /\ cameraOffsetY' = cameraOffsetY]_vars

\* C29: with the popup closed, a left-press records drawStart = the world
\* cursor (screen cursor plus camera offset) and enters the drawing state
\* without creating any element (the list changes only by a clear or load
\* key of the same tick); the recorded start stays fixed in world
\* coordinates, whatever the camera does, for as long as the drawing lasts
\* and no new press starts another one; the committed track's first endpoint
\* is the recorded start, that is, the world point that was under the cursor
\* at press time.
C29_StartFixedInWorld ==
    [][/\ (last'.op = "Update" /\ ~popupVisible /\ last'.lp)
            => /\ startX' = Num(last'.cx + cameraOffsetX)
               /\ startY' = Num(last'.cy + cameraOffsetY)
               /\ drawing'
               /\ NoClearNoLoad => tracks' = tracks
       /\ (last'.op = "Update" /\ drawing /\ ~last'.lp /\ ~last'.lr)
            => drawing'
       /\ (last'.op = "Update" /\ drawing /\ ~last'.lp /\ drawing')
            => /\ startX' = startX
               /\ startY' = startY
       /\ (last'.op = "Update" /\ drawing /\ last'.drawEnd = "commit"
           /\ NoClearNoLoad)
            => /\ Len(tracks') = Len(tracks) + 1
               /\ tracks'[Len(tracks')].X1 = startX.v
               /\ tracks'[Len(tracks')].Y1 = startY.v]_vars

\* C29 witness: pressed at PtA with the camera at the origin, the camera
\* scrolled left during the drag, released at the same pixel: the committed
\* track starts at the world point of the press and ends one scroll step away
C29_Witness ==
    /\ IsUpdate /\ last.lr /\ last.drawEnd = "commit"
    /\ last.cx = PtA[1] /\ last.cy = PtA[2]
    /\ tracks[Len(tracks)].X1 = PtA[1]
    /\ tracks[Len(tracks)].Y1 = PtA[2]
    /\ tracks[Len(tracks)].X2 = PtA[1] - cameraScrollSpeed
    /\ tracks[Len(tracks)].Y2 = PtA[2]

C31_OnlyEscapeTerminates ==
    /\ [](IsUpdate => /\ last.ret \in {"nil", "Termination"}
                     /\ last.ret = "Termination" <=> "Escape" \in last.just)
    /\ [][last'.op = "Update" => last.ret = "nil"]_vars

\* C31 witness: the tick of a save that could not create its file returned nil
C31_Witness ==
    /\ IsUpdate /\ "S" \in last.just /\ last.saveRes = "createError"
    /\ last.ret = "nil"

\* C32: the render pass is read-only: Draw changes no field of the
\* application state (tracks, camera offset, drawing and start, the popup
\* fields, selection, hover, default colour and thickness, viewport size);
\* Layout changes only the stored viewport size.
C32_DrawReadOnly ==
    [][/\ last'.op = "Draw" => UNCHANGED gameVars
       /\ last'.op = "Layout"
            => UNCHANGED <<tracks, startX, startY, drawing, currentColor,
                           thickness, cameraOffsetX, cameraOffsetY,
                           popupVisible, popupX, popupY, selectedTrackIndex,
                           popupOptions, hoveredTrackIndex>>]_vars

\* C32 witness: a frame was rendered with the cursor on a track the stored
\* hover index does not name, while a drawing was in progress
C32_Witness ==
    /\ last.op = "Draw"
    /\ drawing
    /\ view.fn = "Draw" /\ view.live > 0
    /\ findClosestTrack(tracks, last.cx + cameraOffsetX,
                        last.cy + cameraOffsetY) # hoveredTrackIndex

\* whether path s ends in ".json", letter case ignored
EndsInJson(s) ==
    /\ Len(s) >= 5
    /\ s[Len(s) - 4] = "."
    /\ s[Len(s) - 3] \in {"j", "J"}
    /\ s[Len(s) - 2] \in {"s", "S"}
    /\ s[Len(s) - 1] \in {"o", "O"}
    /\ s[Len(s)] \in {"n", "N"}

\* C33: the path a save writes to always ends in ".json" compared
\* case-insensitively: a chosen path that already ends in .json (any letter
\* case) is used unchanged, and any other non-empty path has ".json"
\* appended exactly once.
C33_SavePathEndsInJson ==
    view.fn = "savePath"
    => /\ EndsInJson(view.res)
       /\ IF EndsInJson(view.arg) THEN view.res = view.arg
          ELSE /\ Len(view.res) = Len(view.arg) + 5
               /\ SubSeq(view.res, 1, Len(view.arg)) = view.arg
               /\ SubSeq(view.res, Len(view.arg) + 1, Len(view.res))
                     = <<".", "j", "s", "o", "n">>

\* C33 witness: the chosen path a.JsoN was used as it is
C33_Witness ==
    /\ view.fn = "savePath"
    /\ view.arg = <<"a", ".", "J", "s", "o", "N">>
    /\ view.res = view.arg

\* ---- C34: what pointSegmentDistance returns
IsSegmentCall == view.fn = "pointSegmentDistance"

\* the value returned is 0: both differences are
ReturnsZero == view.residue = <<FixInt(0), FixInt(0)>>

\* the closest point of the call is A or B where t is clamped or A = B, and
\* otherwise lies within 2^-40 of A + (dot / lengthSq) * AB on each axis
ClosestIsClampedProjection ==
    LET p == view.arg[1]
        a == view.arg[2]
        b == view.arg[3]
        dx == b[1] - a[1]
        dy == b[2] - a[2]
        lengthSq == dx * dx + dy * dy
        dot == (p[1] - a[1]) * dx + (p[2] - a[2]) * dy
        tolerance ==
            SubSeq([i \in 1..fixWidth |-> IF i = fracBits - 39 THEN 1 ELSE 0],
                   1, fixWidth)
        near(c, a0, d) ==
            FixLess(FixDiff(FixTimes(c, lengthSq),
                            FixInt(a0 * lengthSq + dot * d)),
                    FixTimes(tolerance, lengthSq))
    IN  IF lengthSq = 0 \/ dot <= 0
        THEN view.closest = <<FixInt(a[1]), FixInt(a[2])>>
        ELSE IF dot >= lengthSq
        THEN view.closest = <<FixInt(b[1]), FixInt(b[2])>>
        ELSE near(view.closest[1], a[1], dx) /\ near(view.closest[2], a[2], dy)

C35_PopupIffSelected == popupVisible <=> selectedTrackIndex # -1

\* a left press outside every option has closed the popup and reset the
\* selection
C35_Witness ==
    /\ IsUpdate /\ last.popupWas /\ last.lp /\ last.optRun = 0
    /\ ~popupVisible
    /\ selectedTrackIndex = -1

\* ---- C36: the selection while the popup is visible
\* C36: whenever the popup is visible, selectedTrackIndex is a valid index
\* into the track list, every option's captured index equals it, and the
\* track at that index is the one that was right-clicked.
C36_SelectionDenotesClicked ==
    popupVisible =>
        /\ selectedTrackIndex \in 0..(Len(tracks) - 1)
        /\ \A k \in 1..Len(popupOptions) :
              popupOptions[k].optIndex = selectedTrackIndex
        /\ tracks[selectedTrackIndex + 1] = popupTrack

\* ---- C37: no access to the track list out of range
\* the options of the step being taken that run: the first one clicked
RunOption ==
    {j \in ClickedOptions : \A k \in ClickedOptions : j <= k}

\* C37: the tooltip lookup of Draw indexes the track list only in range,
\* also after the list was replaced by a shorter one, and an option whose
\* captured index is out of range when it runs leaves the track list as it
\* is.
C37_IndexInRange ==
    /\ [](last.op = "Draw" =>
            /\ ~view.panic
            /\ view.reads \subseteq 0..(Len(tracks) - 1))
    /\ [][(last'.op = "Update" /\ popupVisible /\ last'.lp /\ NoClearNoLoad
           /\ \E j \in RunOption :
                 popupOptions[j].optIndex \notin 0..(Len(tracks) - 1))
          => tracks' = tracks]_vars

\* a frame rendered while hoveredTrackIndex is past the end of the list
C37_Witness ==
    /\ view.fn = "Draw"
    /\ last.op = "Draw"
    /\ hoveredTrackIndex >= Len(tracks)
    /\ ~popupVisible
    /\ ~drawing
    /\ view.tooltip = -1

\* ---- C38: the option rectangles of the popup
\* image.Rectangle.Overlaps and image.Rectangle.In for rectangles that are
\* not empty
RectOverlaps(r, s) ==
    r.MinX < s.MaxX /\ s.MinX < r.MaxX /\ r.MinY < s.MaxY /\ s.MinY < r.MaxY

RectInside(r, s) ==
    s.MinX <= r.MinX /\ r.MaxX <= s.MaxX /\ s.MinY <= r.MinY /\ r.MaxY <= s.MaxY

\* C38: the option rectangles generated for a popup anchor are pairwise
\* disjoint, each lies inside the popup rectangle of width popupWidth and
\* height (lowest option bottom - anchor y + padding) at the anchor, and the
\* rectangles tested against a click are all moved by the same offset, the
\* one from the anchor to the popup's drawn position.
C38_OptionsDisjointInPopup ==
    LET n == Len(popupOptions)
        bottoms == {popupOptions[j].Rect.MaxY : j \in 1..n}
        lowest == CHOOSE y \in bottoms : \A z \in bottoms : z <= y
        popupRect == Rect(popupX, popupY, popupX + popupWidth,
                          popupY + (lowest - popupY + popupPadding))
        pos == calculatePopupDrawPosition(Game)
    IN  /\ n > 0 => PopupHeight(Game) = lowest - popupY + popupPadding
        /\ \A j, k \in 1..n :
              j # k => ~RectOverlaps(popupOptions[j].Rect, popupOptions[k].Rect)
        /\ \A j \in 1..n :
              /\ popupOptions[j].Rect.MinX < popupOptions[j].Rect.MaxX
              /\ popupOptions[j].Rect.MinY < popupOptions[j].Rect.MaxY
              /\ RectInside(popupOptions[j].Rect, popupRect)
              /\ OptionDrawRect(Game, popupOptions[j])
                    = RectAdd(popupOptions[j].Rect,
                              pos[1] - popupX, pos[2] - popupY)

\* a popup open in a window too small for it at its anchor: the options are
\* tested where the popup is drawn
C38_Witness ==
    /\ popupVisible
    /\ Len(popupOptions) = Len(colorKeys) + 1
    /\ calculatePopupDrawPosition(Game)[2] < popupY

\* ---- C39: what may change on a track of the list
\* the delete row runs in the step being taken, on an index of the list
DeleteRuns ==
    /\ popupVisible /\ last'.lp
    /\ \E j \in RunOption :
          /\ popupOptions[j].kind = "delete"
          /\ popupOptions[j].optIndex \in 0..(Len(tracks) - 1)

\* a swatch runs in the step being taken, on the track at i (from 1)
SwatchRunsOn(i) ==
    /\ popupVisible /\ last'.lp
    /\ \E j \in RunOption :
          /\ popupOptions[j].kind = "color"
          /\ popupOptions[j].optIndex = i - 1

\* C39: in a tick that neither clears nor replaces the list, every track that
\* stays in the list keeps its endpoints, Thickness and LengthMeters; its
\* Color changes only if a swatch of the popup runs on it in that tick: not
\* through the palette keys, the gauge keys or the camera scroll.
C39_TracksKeepGeometry ==
    [][(last'.op = "Update" /\ NoClearNoLoad)
       => IF DeleteRuns
          THEN \E d \in 1..Len(tracks) :
                  SubSeq(tracks', 1, Len(tracks) - 1) = RemoveAt(tracks, d)
          ELSE \A i \in 1..Len(tracks) :
                  /\ i <= Len(tracks')
                  /\ tracks'[i] = [tracks[i] EXCEPT !.Color = tracks'[i].Color]
                  /\ tracks'[i].Color # tracks[i].Color => SwatchRunsOn(i)]_vars

\* a swatch has recoloured a track that was drawn at another gauge than the
\* current one
C39_Witness ==
    /\ IsUpdate /\ last.popupWas /\ last.lp /\ last.optRun = 1
    /\ Len(tracks) > 0
    /\ tracks[1].Color = colorPalette[colorKeys[1]]
    /\ tracks[1].Thickness # thickness
    /\ tracks[1].Color # currentColor
    /\ cameraOffsetX # 0

====
